---- MODULE Spec2Model ----
(***************************************************************************)
(* Privacy loss distributions (accounting/python/privacy_loss_distribution *)
(* .py): the factories, the two queries and the composition operations of  *)
(* PrivacyLossDistribution, as a state machine over two PLD objects.        *)
(*                                                                         *)
(* Numbers.  A Python float that holds a probability mass or a delta is an *)
(* exact rational <<n, d>> (d > 0, lowest terms).  A float that holds a    *)
(* logarithm (an epsilon, a privacy loss value, a log-probability, the     *)
(* discretization interval) is held by its exponential: the rational X     *)
(* stands for ln X, so x + y is X * Y, x - y is X / Y, i * x is X^i,       *)
(* x <= y is X <= Y, -infinity is 0 and +infinity is <<1, 0>>.  math.log   *)
(* and math.exp move between the two readings; math.exp keeps the finite   *)
(* range of a float: it raises OverflowError above ExpMax and returns 0    *)
(* below ExpMin.  Rounding of the mantissa is not modelled.                *)
(***************************************************************************)
EXTENDS Integers, Sequences, FiniteSets, TLC

VARIABLES
    pld,      \* the two PLD objects the caller holds, pld[1] and pld[2]
    origin,   \* for each object, the call that constructed it
    last,     \* the last call made: its name, arguments and outcome
    composed, \* for each object, how many constructed PLDs it composes
    frame     \* the local variables of a running from_privacy_guarantee call

vars == <<pld, origin, last, composed, frame>>

-----------------------------------------------------------------------------
(* Bounds of the model *)

\* the most constructed PLDs composed into one object
MaxComposed == 3

\* math.exp overflows above 2^MaxExponent and is 0 below 2^-(MaxExponent+1)
MaxExponent == 2

\* the most Gaussian mechanisms one self-composed Gaussian PLD stands for
MaxGaussianComposed == 4

\* the bits of the mantissa of a float
MantissaBits == 3

-----------------------------------------------------------------------------
(* Exact rational arithmetic for Python's float operators *)

Abs(n) == IF n < 0 THEN -n ELSE n

RECURSIVE GCD(_, _)
GCD(a, b) == IF b = 0 THEN a ELSE GCD(b, a % b)

\* the rational n/d, d > 0, in lowest terms
Q(n, d) == LET g == GCD(Abs(n), d) IN <<n \div g, d \div g>>

Zero == <<0, 1>>
One == <<1, 1>>
Two == <<2, 1>>
PosInf == <<1, 0>>

\* x + y and x - y, over the least common denominator
Add(x, y) == LET g == GCD(x[2], y[2])
             IN Q(x[1] * (y[2] \div g) + y[1] * (x[2] \div g), (x[2] \div g) * y[2])
Sub(x, y) == LET g == GCD(x[2], y[2])
             IN Q(x[1] * (y[2] \div g) - y[1] * (x[2] \div g), (x[2] \div g) * y[2])
\* x * y, cancelling across before multiplying
Mul(x, y) == LET g1 == GCD(Abs(x[1]), y[2])
                 g2 == GCD(Abs(y[1]), x[2])
             IN <<(x[1] \div g1) * (y[1] \div g2), (x[2] \div g2) * (y[2] \div g1)>>
\* x / y for y # 0
Div(x, y) == IF y[1] < 0 THEN Mul(x, <<-y[2], -y[1]>>) ELSE Mul(x, <<y[2], y[1]>>)
Lt(x, y) == LET g == GCD(x[2], y[2])
            IN x[1] * (y[2] \div g) < y[1] * (x[2] \div g)
Le(x, y) == LET g == GCD(x[2], y[2])
            IN x[1] * (y[2] \div g) <= y[1] * (x[2] \div g)
Max2(x, y) == IF Lt(x, y) THEN y ELSE x

RECURSIVE IntPow(_, _)
IntPow(b, k) == IF k = 0 THEN 1 ELSE b * IntPow(b, k - 1)

\* x^k for an integer k and x > 0: the float k * ln x
Pow(x, k) == IF k >= 0 THEN <<IntPow(x[1], k), IntPow(x[2], k)>>
                       ELSE <<IntPow(x[2], -k), IntPow(x[1], -k)>>

\* the float -x of a logarithm x
Neg(x) == <<x[2], x[1]>>

ExpMax == Pow(Two, MaxExponent)
ExpMin == Pow(Two, -(MaxExponent + 1))

\* math.exp(x) raises OverflowError
exp_raises(x) == Lt(ExpMax, x)
\* math.exp(x) when it returns
exp(x) == IF Lt(x, ExpMin) THEN Zero ELSE x

\* math.log(r) for r > 0
log(r) == r

RECURSIVE CeilUp(_, _, _)
CeilUp(x, g, n) == IF Le(x, Pow(g, n)) THEN n ELSE CeilUp(x, g, n + 1)
RECURSIVE CeilDown(_, _, _)
CeilDown(x, g, n) == IF Lt(Pow(g, n - 1), x) THEN n ELSE CeilDown(x, g, n - 1)
\* math.ceil(x / g) for logarithms x and g > 0: the least n with n * g >= x
ceil(x, g) == IF Le(x, One) THEN CeilDown(x, g, 0) ELSE CeilUp(x, g, 1)

RECURSIVE FloorUp(_, _, _)
FloorUp(x, g, n) == IF Lt(x, Pow(g, n + 1)) THEN n ELSE FloorUp(x, g, n + 1)
RECURSIVE FloorDown(_, _, _)
FloorDown(x, g, n) == IF Le(Pow(g, n), x) THEN n ELSE FloorDown(x, g, n - 1)
\* math.floor(x / g): the greatest n with n * g <= x
floor(x, g) == IF Le(One, x) THEN FloorUp(x, g, 0) ELSE FloorDown(x, g, -1)

SetMax(S) == CHOOSE m \in S : \A x \in S : x <= m
SetMin(S) == CHOOSE m \in S : \A x \in S : m <= x

\* sum of the values of the dictionary f over the keys S
RECURSIVE SumOver(_, _)
SumOver(f, S) ==
    IF S = {} THEN Zero
    ELSE LET k == CHOOSE x \in S : TRUE IN Add(f[k], SumOver(f, S \ {k}))

\* sum(dictionary.values())
SumValues(f) == SumOver(f, DOMAIN f)

\* the empty dictionary
EmptyDict == [k \in {} |-> Zero]

\* a Python list and a Python dict, with every element evaluated once
List(f) == <<>> \o f
Dict(f) == f @@ EmptyDict

-----------------------------------------------------------------------------
(* PrivacyLossDistribution *)

\* PrivacyLossDistribution.__init__
PrivacyLossDistribution(rounded_probability_mass_function, value_discretization_interval, infinity_mass) ==
    [rounded_probability_mass_function |-> rounded_probability_mass_function,
     value_discretization_interval |-> value_discretization_interval,
     infinity_mass |-> infinity_mass]

\* the outcome of a call: a returned value or a raised exception
Return(v) == [kind |-> "return", value |-> v, error |-> "none"]
Raise(e) == [kind |-> "raise", value |-> Zero, error |-> e]

\* a bucket value one interval too high: (i + 1) * value_discretization_interval
BucketValueNext(self, i) == Pow(self.value_discretization_interval, i + 1)

\* the privacy loss value of bucket i: i * value_discretization_interval
BucketValue(self, i) == Pow(self.value_discretization_interval, i)

\* a divergence term that lets the buckets at or below epsilon contribute
DivergenceTermEveryBucket(self, epsilon, i) ==
    LET val == BucketValue(self, i)
        mass == self.rounded_probability_mass_function[i]
    IN Mul(Sub(One, exp(Div(epsilon, val))), mass)

\* a divergence term that takes the whole mass of the buckets at or below
\* epsilon and nothing of the buckets above
DivergenceTermBelowEpsilon(self, epsilon, i) ==
    LET val == BucketValue(self, i)
        mass == self.rounded_probability_mass_function[i]
    IN IF Le(val, epsilon) THEN mass ELSE Zero

\* one bucket's term of the divergence
DivergenceTerm(self, epsilon, i) ==
    LET val == BucketValue(self, i)
        mass == self.rounded_probability_mass_function[i]
    IN IF Lt(epsilon, val) /\ Lt(Zero, mass)
       THEN Mul(Sub(One, exp(Div(epsilon, val))), mass)
       ELSE Zero

\* PrivacyLossDistribution.get_delta_for_epsilon
get_delta_for_epsilon(self, epsilon) ==
    LET keys == DOMAIN self.rounded_probability_mass_function
        terms == Dict([i \in keys |-> DivergenceTerm(self, epsilon, i)])
    IN Add(self.infinity_mass, SumOver(terms, keys))

\* sorted(keys, reverse=True)
RECURSIVE SortedReverse(_)
SortedReverse(S) ==
    IF S = {} THEN <<>>
    ELSE <<SetMax(S)>> \o SortedReverse(S \ {SetMax(S)})

\* a final formula that adds delta to mass_upper where the code subtracts it
EpsilonAfterLoopAddingDelta(mass_upper, mass_lower, delta) ==
    IF Le(mass_upper, Add(mass_lower, delta)) THEN Return(One)
    ELSE IF mass_lower = Zero THEN Raise("ZeroDivisionError")
    ELSE Return(log(Div(Add(mass_upper, delta), mass_lower)))

\* get_epsilon_for_delta after the loop
EpsilonAfterLoop(mass_upper, mass_lower, delta) ==
    IF Le(mass_upper, Add(mass_lower, delta)) THEN Return(One)
    ELSE IF mass_lower = Zero THEN Raise("ZeroDivisionError")
    ELSE IF Le(Div(Sub(mass_upper, delta), mass_lower), Zero)
         THEN Raise("ValueError")
    ELSE Return(log(Div(Sub(mass_upper, delta), mass_lower)))

\* a loop test that never ends the loop: every bucket is accumulated
EpsilonBreakNever(mass_upper, mass_lower, delta, val) == FALSE

\* the test that ends the loop of get_epsilon_for_delta early
EpsilonBreak(mass_upper, mass_lower, delta, val) ==
    /\ Lt(delta, mass_upper)
    /\ Lt(Zero, mass_lower)
    /\ Le(val, log(Div(Sub(mass_upper, delta), mass_lower)))

\* the early return inside the loop of get_epsilon_for_delta
EpsilonEarlyReturn(mass_upper, mass_lower, delta) ==
    Le(delta, mass_upper) /\ mass_lower = Zero

\* the loop of get_epsilon_for_delta over the keys, largest first
RECURSIVE EpsilonLoop(_, _, _, _, _)
EpsilonLoop(self, delta, keys, mass_upper, mass_lower) ==
    IF keys = <<>> THEN EpsilonAfterLoop(mass_upper, mass_lower, delta)
    ELSE LET i == Head(keys)
             val == BucketValue(self, i)
             mass == self.rounded_probability_mass_function[i]
         IN IF EpsilonBreak(mass_upper, mass_lower, delta, val)
            THEN EpsilonAfterLoop(mass_upper, mass_lower, delta)
            ELSE IF exp_raises(Neg(val)) THEN Raise("OverflowError")
            ELSE LET upper2 == Add(mass_upper, mass)
                     lower2 == Add(mass_lower, Mul(exp(Neg(val)), mass))
                 IN IF EpsilonEarlyReturn(upper2, lower2, delta)
                    THEN Return(Max2(One, val))
                    ELSE EpsilonLoop(self, delta, Tail(keys), upper2, lower2)

\* PrivacyLossDistribution.get_epsilon_for_delta
get_epsilon_for_delta(self, delta) ==
    IF Lt(delta, self.infinity_mass) THEN Return(PosInf)
    ELSE EpsilonLoop(self, delta,
                     SortedReverse(DOMAIN self.rounded_probability_mass_function),
                     self.infinity_mass, Zero)

\* PrivacyLossDistribution.from_privacy_parameters
from_privacy_parameters(privacy_parameters, value_discretization_interval) ==
    LET delta == privacy_parameters.delta
        epsilon == privacy_parameters.epsilon
        key_upper == ceil(epsilon, value_discretization_interval)
        key_lower == ceil(Neg(epsilon), value_discretization_interval)
        mass_upper == Div(Sub(One, delta), Add(One, exp(Neg(epsilon))))
        mass_lower == Div(Sub(One, delta), Add(One, exp(epsilon)))
    IN IF exp_raises(Neg(epsilon)) \/ exp_raises(epsilon)
       THEN Raise("OverflowError")
       ELSE Return(PrivacyLossDistribution(
                Dict([k \in {key_upper, key_lower} |->
                    IF k = key_lower THEN mass_lower ELSE mass_upper]),
                value_discretization_interval, delta))

\* dictionary[key] += amount on a collections.defaultdict(lambda: 0)
DictAdd(dictionary, key, amount) ==
    Dict([k \in DOMAIN dictionary \cup {key} |->
        IF k = key
        THEN Add(IF key \in DOMAIN dictionary THEN dictionary[key] ELSE Zero,
                 amount)
        ELSE dictionary[k]])

\* a round_fn that rounds down whatever the estimate
round_fn_floor(pessimistic_estimate, x, g) == floor(x, g)

\* round_fn = math.ceil if pessimistic_estimate else math.floor
round_fn(pessimistic_estimate, x, g) ==
    IF pessimistic_estimate THEN ceil(x, g) ELSE floor(x, g)

\* x / y on floats, for y > 0: a quotient above the largest float is inf and
\* one below the smallest positive float is 0.0; the floats reach as far as
\* the results of math.exp do
truediv(x, y) ==
    LET quotient == Div(x, y)
    IN IF Lt(ExpMax, quotient) THEN PosInf
       ELSE IF Lt(quotient, ExpMin) THEN Zero
       ELSE quotient

\* PrivacyLossDistribution.from_randomized_response; num_buckets is an int,
\* noise_parameter a rational
from_randomized_response(noise_parameter, num_buckets, pessimistic_estimate, value_discretization_interval) ==
    IF Le(noise_parameter, Zero) \/ Le(One, noise_parameter)
    THEN Raise("ValueError")
    ELSE IF num_buckets <= 1 THEN Raise("ValueError")
    ELSE
    LET probability_output_not_input ==
            truediv(noise_parameter, <<num_buckets, 1>>)
        probability_output_equal_input ==
            Add(Sub(One, noise_parameter), probability_output_not_input)
        ratio_equal == truediv(probability_output_equal_input,
                               probability_output_not_input)
        ratio_not == truediv(probability_output_not_input,
                             probability_output_equal_input)
        value_equal == round_fn(pessimistic_estimate, log(ratio_equal),
                                value_discretization_interval)
        value_not == round_fn(pessimistic_estimate, log(ratio_not),
                              value_discretization_interval)
        d1 == DictAdd(EmptyDict, value_equal, probability_output_equal_input)
        d2 == DictAdd(d1, value_not, probability_output_not_input)
        d3 == DictAdd(d2, 0, Mul(probability_output_not_input,
                                 <<num_buckets - 2, 1>>))
    IN IF probability_output_not_input = Zero THEN Raise("ZeroDivisionError")
       ELSE IF ratio_equal = PosInf THEN Raise("OverflowError")
       ELSE IF ratio_not = Zero THEN Raise("ValueError")
       ELSE Return(PrivacyLossDistribution(d3, value_discretization_interval,
                                           Zero))

\* dictionary.get(outcome, -math.inf) on a log-probability dictionary
GetLog(dictionary, outcome) ==
    IF outcome \in DOMAIN dictionary THEN dictionary[outcome] ELSE Zero

\* the outcomes whose upper mass from_two_probability_mass_functions first
\* counts in infinity_mass: those with no mass in the lower distribution
OnlyUpper(lower, upper) == {o \in DOMAIN upper : GetLog(lower, o) = Zero}

\* the outcomes of the lower distribution that go to the histogram
Kept(lower, upper, log_mass_truncation_bound) ==
    {o \in DOMAIN lower :
        lower[o] # Zero /\ Lt(log_mass_truncation_bound, GetLog(upper, o))}

\* a truncation that misses the outcomes exactly at the bound
TruncatedBelow(lower, upper, log_mass_truncation_bound) ==
    {o \in DOMAIN lower :
        lower[o] # Zero /\ Lt(GetLog(upper, o), log_mass_truncation_bound)}

\* the outcomes of the lower distribution whose upper mass is truncated
Truncated(lower, upper, log_mass_truncation_bound) ==
    {o \in DOMAIN lower :
        lower[o] # Zero /\ ~Lt(log_mass_truncation_bound, GetLog(upper, o))}

\* a privacy loss value with the two distributions exchanged
PrivacyLossValueExchanged(lower, upper, o) == Div(lower[o], upper[o])

\* privacy_loss_value of an outcome: log upper - log lower
PrivacyLossValue(lower, upper, o) == Div(upper[o], lower[o])

\* PrivacyLossDistribution.from_two_probability_mass_functions; the two
\* dictionaries hold log-probabilities
from_two_probability_mass_functions(log_probability_mass_function_lower, log_probability_mass_function_upper, pessimistic_estimate, value_discretization_interval, log_mass_truncation_bound) ==
    LET lower == log_probability_mass_function_lower
        upper == log_probability_mass_function_upper
        only == OnlyUpper(lower, upper)
        kept == Kept(lower, upper, log_mass_truncation_bound)
        cut == Truncated(lower, upper, log_mass_truncation_bound)
        values == {PrivacyLossValue(lower, upper, o) : o \in kept}
        probability_mass_function ==
            Dict([v \in values |->
                SumOver([o \in kept |-> exp(upper[o])],
                        {o \in kept : PrivacyLossValue(lower, upper, o) = v})])
        keys == {round_fn(pessimistic_estimate, v, value_discretization_interval)
                    : v \in values}
        rounded_probability_mass_function ==
            Dict([k \in keys |->
                SumOver(probability_mass_function,
                        {v \in values :
                            round_fn(pessimistic_estimate, v,
                                     value_discretization_interval) = k})])
        infinity_mass ==
            Add(SumOver([o \in only |-> exp(upper[o])], only),
                IF pessimistic_estimate
                THEN SumOver([o \in cut |-> exp(GetLog(upper, o))], cut)
                ELSE Zero)
    IN Return(PrivacyLossDistribution(rounded_probability_mass_function,
                                      value_discretization_interval,
                                      infinity_mass))

\* a dictionary whose every read inserts the keys read that it lacks, with
\* value 0, as indexing a collections.defaultdict(lambda: 0) does
AfterIndexing(dictionary, keys) ==
    Dict([k \in DOMAIN dictionary \cup keys |->
        IF k \in DOMAIN dictionary THEN dictionary[k] ELSE Zero])

\* the dictionary after it was read at the keys: the code reads a histogram
\* by input_dictionary.get(i, 0), and by [i] only for i a key of it, and
\* neither inserts a key
AfterReads(dictionary, keys) == dictionary

\* a PLD after dictionary_to_list read its histogram, from the smallest key
\* to the largest; min() raises on an empty histogram before any read
AfterConversion(self) ==
    LET h == self.rounded_probability_mass_function
    IN IF DOMAIN h = {} THEN self
       ELSE [self EXCEPT !.rounded_probability_mass_function =
                AfterReads(h, SetMin(DOMAIN h)..SetMax(DOMAIN h))]

\* a PLD after a query iterated over its histogram
AfterQuery(self) ==
    [self EXCEPT !.rounded_probability_mass_function =
        AfterReads(@, DOMAIN self.rounded_probability_mass_function)]

\* dictionary_to_list, for a non-empty dictionary
dictionary_to_list(input_dictionary) ==
    LET offset == SetMin(DOMAIN input_dictionary)
        max_val == SetMax(DOMAIN input_dictionary)
    IN [offset |-> offset,
        result_list |-> List([n \in 1..(max_val - offset + 1) |->
            IF offset + n - 1 \in DOMAIN input_dictionary
            THEN input_dictionary[offset + n - 1] ELSE Zero])]

\* a conversion that stores every element of the list, zero or not
list_to_dictionary_every_element(input_list, offset) ==
    Dict([k \in {n - 1 + offset : n \in 1..Len(input_list)} |->
        input_list[k - offset + 1]])

\* list_to_dictionary
list_to_dictionary(input_list, offset) ==
    Dict([k \in {n - 1 + offset : n \in {m \in 1..Len(input_list) :
                                             Lt(Zero, input_list[m])}} |->
        input_list[k - offset + 1]])

\* signal.fftconvolve(list1, list2): the linear convolution of the lists
fftconvolve(list1, list2) ==
    List([n \in 1..(Len(list1) + Len(list2) - 1) |->
        LET idx == {i \in 1..Len(list1) : n + 1 - i \in 1..Len(list2)}
        IN SumOver([i \in idx |-> Mul(list1[i], list2[n + 1 - i])], idx)])

\* convolve_dictionary
convolve_dictionary(dictionary1, dictionary2) ==
    IF DOMAIN dictionary1 = {} \/ DOMAIN dictionary2 = {}
    THEN Raise("ValueError")
    ELSE LET l1 == dictionary_to_list(dictionary1)
             l2 == dictionary_to_list(dictionary2)
             result_list == fftconvolve(l1.result_list, l2.result_list)
         IN Return(list_to_dictionary(result_list, l1.offset + l2.offset))

\* the product of two length-n spectra: the cyclic convolution of the lists
CyclicConvolve(list1, list2, n) ==
    List([k \in 1..n |->
        SumOver([i \in 1..n |-> Mul(list1[i], list2[((k - i) % n) + 1])], 1..n)])

\* ifft(fft(input_list, n) ** num_times), for num_times >= 1
RECURSIVE FftPower(_, _, _)
FftPower(padded, n, num_times) ==
    IF num_times = 1 THEN padded
    ELSE CyclicConvolve(FftPower(padded, n, num_times - 1), padded, n)

\* self_convolve_dictionary, for num_times >= 1
self_convolve_dictionary(input_dictionary, num_times) ==
    IF DOMAIN input_dictionary = {} THEN Raise("ValueError")
    ELSE LET l == dictionary_to_list(input_dictionary)
             n == num_times * Len(l.result_list)
             padded == List([k \in 1..n |-> IF k <= Len(l.result_list)
                                            THEN l.result_list[k] ELSE Zero])
             result_list == FftPower(padded, n, num_times)
         IN Return(list_to_dictionary(result_list, l.offset * num_times))

\* a granularity test that accepts every pair
SameIntervalAlways(self, other) == TRUE

\* the granularity test of compose
SameInterval(self, other) ==
    self.value_discretization_interval = other.value_discretization_interval

\* an infinity_mass that adds the two masses
ComposedInfinityMassSum(a, b) == Add(a, b)

\* infinity_mass of a composition: a + b - a * b
ComposedInfinityMass(a, b) == Sub(Add(a, b), Mul(a, b))

\* PrivacyLossDistribution.compose
compose(self, privacy_loss_distribution) ==
    IF ~SameInterval(self, privacy_loss_distribution) THEN Raise("ValueError")
    ELSE LET new_rounded_probability_mass_function ==
                 convolve_dictionary(
                     self.rounded_probability_mass_function,
                     privacy_loss_distribution.rounded_probability_mass_function)
             new_infinity_mass ==
                 ComposedInfinityMass(self.infinity_mass,
                                      privacy_loss_distribution.infinity_mass)
         IN IF new_rounded_probability_mass_function.kind = "raise"
            THEN new_rounded_probability_mass_function
            ELSE Return(PrivacyLossDistribution(
                     new_rounded_probability_mass_function.value,
                     self.value_discretization_interval, new_infinity_mass))

\* (1 - infinity_mass) ** num_times
RECURSIVE RatPow(_, _)
RatPow(x, k) == IF k = 0 THEN One ELSE Mul(x, RatPow(x, k - 1))

\* PrivacyLossDistribution.self_compose, for num_times >= 1
self_compose(self, num_times) ==
    LET new_rounded_probability_mass_function ==
            self_convolve_dictionary(self.rounded_probability_mass_function,
                                     num_times)
        new_infinity_mass ==
            Sub(One, RatPow(Sub(One, self.infinity_mass), num_times))
    IN IF new_rounded_probability_mass_function.kind = "raise"
       THEN new_rounded_probability_mass_function
       ELSE Return(PrivacyLossDistribution(
                new_rounded_probability_mass_function.value,
                self.value_discretization_interval, new_infinity_mass))

-----------------------------------------------------------------------------
(* Inputs *)

\* value_discretization_interval: ln 2 and ln 4
Intervals == {<<2, 1>>, <<4, 1>>}

\* DifferentialPrivacyParameters: epsilon in {0, ln 3, ln 4},
\* delta in {0, 1/4, 1}
PrivacyParameters ==
    [epsilon : {<<1, 1>>, <<3, 1>>, <<4, 1>>},
     delta : {<<0, 1>>, <<1, 4>>, <<1, 1>>}]

\* noise_parameter and num_buckets of from_randomized_response
NoiseParameters == {<<0, 1>>, <<1, 8>>, <<1, 2>>, <<3, 4>>, <<1, 1>>}
NumBuckets == {1, 2, 4}

\* probability mass functions over the outcomes a, b, c, by their masses
\* (the dictionaries passed hold the logarithms; mass 0 is log-mass -inf)
PointA == [o \in {"a"} |-> <<1, 1>>]
PointB == [o \in {"b"} |-> <<1, 1>>]
Half == [o \in {"a", "b"} |-> <<1, 2>>]
Quarter == [o \in {"a", "b"} |-> IF o = "a" THEN <<1, 4>> ELSE <<3, 4>>]
Eighth == [o \in {"a", "b"} |-> IF o = "a" THEN <<1, 8>> ELSE <<7, 8>>]
Sixteenth == [o \in {"a", "b"} |-> IF o = "a" THEN <<1, 16>> ELSE <<15, 16>>]
ZeroA == [o \in {"a", "b"} |-> IF o = "a" THEN <<0, 1>> ELSE <<1, 1>>]
Three == [o \in {"a", "b", "c"} |-> IF o = "a" THEN <<1, 2>> ELSE <<1, 4>>]
Sixteenths == [o \in {"a", "b", "c"} |-> IF o = "c" THEN <<3, 8>> ELSE <<5, 16>>]

\* lower and upper distributions; every upper mass is one math.exp returns
\* exactly
LowerDistributions == {PointA, Half, Quarter, Sixteenth, ZeroA, Three}
UpperDistributions == {PointA, PointB, Half, Quarter, Eighth, Three, Sixteenths}

\* log_mass_truncation_bound: -inf and ln 1/4
TruncationBounds == {<<0, 1>>, <<1, 4>>}

\* the factory calls of the full machine, as <<name, arguments>>
CoreCalls ==
    {<<"from_privacy_parameters",
       <<[epsilon |-> <<3, 1>>, delta |-> <<0, 1>>], <<2, 1>>>>>>,
     <<"from_privacy_parameters",
       <<[epsilon |-> <<3, 1>>, delta |-> <<1, 1>>], <<2, 1>>>>>>,
     <<"from_privacy_parameters",
       <<[epsilon |-> <<1, 1>>, delta |-> <<1, 4>>], <<2, 1>>>>>>,
     <<"from_privacy_parameters",
       <<[epsilon |-> <<3, 1>>, delta |-> <<0, 1>>], <<4, 1>>>>>>,
     <<"from_randomized_response", <<<<1, 2>>, 2, TRUE, <<2, 1>>>>>>,
     <<"from_randomized_response", <<<<3, 4>>, 4, FALSE, <<2, 1>>>>>>,
     <<"from_two_probability_mass_functions",
       <<Half, Quarter, FALSE, <<2, 1>>, <<1, 4>>>>>>,
     <<"from_two_probability_mass_functions",
       <<PointA, PointB, TRUE, <<2, 1>>, <<0, 1>>>>>>,
     <<"from_two_probability_mass_functions",
       <<PointA, Eighth, TRUE, <<2, 1>>, <<0, 1>>>>>>,
     <<"from_two_probability_mass_functions",
       <<Sixteenth, PointA, TRUE, <<2, 1>>, <<0, 1>>>>>>}

\* every factory call over the input sets
AllCalls ==
    {<<"from_privacy_parameters", <<params, g>>>> :
        params \in PrivacyParameters, g \in Intervals}
    \cup {<<"from_randomized_response", <<p, k, pess, g>>>> :
        p \in NoiseParameters, k \in NumBuckets, pess \in BOOLEAN,
        g \in Intervals}
    \cup {<<"from_two_probability_mass_functions",
            <<lower, upper, pess, g, bound>>>> :
        lower \in LowerDistributions, upper \in UpperDistributions,
        pess \in BOOLEAN, g \in {<<2, 1>>}, bound \in TruncationBounds}

\* the epsilon arguments of get_delta_for_epsilon: -ln 2, 0, ln 3/2, ln 3,
\* ln 4
Epsilons == {<<1, 2>>, <<1, 1>>, <<3, 2>>, <<3, 1>>, <<4, 1>>}

\* the delta arguments of get_epsilon_for_delta
Deltas == {<<0, 1>>, <<1, 8>>, <<1, 2>>, <<1, 1>>}

\* num_times of self_compose
NumTimes == {1, 2, 3}

Slots == {1, 2}

-----------------------------------------------------------------------------
(* The state machine *)

\* a method call: its name, arguments and outcome, and the objects it was made
\* on as the call left them
CallOn(op, args, out, operands) ==
    [op |-> op, args |-> args, out |-> out, operands |-> operands]

\* a factory call: it is made on no object
Call(op, args, out) == CallOn(op, args, out, <<>>)

NoCall == Call("none", <<>>, Return(Zero))

\* no from_privacy_guarantee call is running
NoFrame == [pc |-> "idle"]

\* the outcome of the factory call <<name, arguments>>
Dispatch(op, args) ==
    CASE op = "from_privacy_parameters" ->
            from_privacy_parameters(args[1], args[2])
      [] op = "from_randomized_response" ->
            from_randomized_response(args[1], args[2], args[3], args[4])
      [] op = "from_two_probability_mass_functions" ->
            from_two_probability_mass_functions(args[1], args[2], args[3],
                                                args[4], args[5])

\* the outcomes of all the factory calls, each computed once
Outcomes == [c \in AllCalls |-> Dispatch(c[1], c[2])]
Factory(op, args) == Outcomes[<<op, args>>]

FirstCall == <<"from_privacy_parameters",
               <<[epsilon |-> <<3, 1>>, delta |-> <<0, 1>>], <<2, 1>>>>>>

Init ==
    /\ pld = [s \in Slots |-> Factory(FirstCall[1], FirstCall[2]).value]
    /\ origin = [s \in Slots |-> FirstCall]
    /\ last = NoCall
    /\ composed = [s \in Slots |-> 1]
    /\ frame = NoFrame

\* pld[s] = PrivacyLossDistribution.<factory>(arguments); the caller keeps
\* the object only if the call returns one
Construct(s, op, args) ==
    LET out == Factory(op, args)
    IN /\ last' = Call(op, args, out)
       /\ IF out.kind = "return"
          THEN /\ pld' = [pld EXCEPT ![s] = out.value]
               /\ origin' = [origin EXCEPT ![s] = <<op, args>>]
               /\ composed' = [composed EXCEPT ![s] = 1]
          ELSE UNCHANGED <<pld, origin, composed>>
       /\ UNCHANGED frame

\* pld[s].get_delta_for_epsilon(epsilon)
GetDeltaForEpsilon(s, epsilon) ==
    /\ last' = CallOn("get_delta_for_epsilon", <<s, epsilon>>,
                      Return(get_delta_for_epsilon(pld[s], epsilon)),
                      <<AfterQuery(pld[s])>>)
    /\ pld' = [pld EXCEPT ![s] = AfterQuery(pld[s])]
    /\ UNCHANGED <<origin, composed>>
    /\ UNCHANGED frame

\* pld[s].get_epsilon_for_delta(delta)
GetEpsilonForDelta(s, delta) ==
    /\ last' = CallOn("get_epsilon_for_delta", <<s, delta>>,
                      get_epsilon_for_delta(pld[s], delta),
                      <<AfterQuery(pld[s])>>)
    /\ pld' = [pld EXCEPT ![s] = AfterQuery(pld[s])]
    /\ UNCHANGED <<origin, composed>>
    /\ UNCHANGED frame

\* self and other as self.compose(other) leaves them: the histogram of self
\* is converted to a list if the intervals agree, that of other if moreover
\* the histogram of self is not empty (other is the object other_now: self
\* itself, already converted, when an object is composed with itself)
SelfAfterCompose(self, other) ==
    IF SameInterval(self, other) THEN AfterConversion(self) ELSE self

OtherAfterCompose(self, other, other_now) ==
    IF SameInterval(self, other)
        /\ DOMAIN self.rounded_probability_mass_function # {}
    THEN AfterConversion(other_now) ELSE other_now

\* pld[1] = pld[1].compose(pld[t]); no result is assigned if compose raises
Compose(t) ==
    /\ composed[1] + composed[t] <= MaxComposed
    /\ LET out == compose(pld[1], pld[t])
           self1 == SelfAfterCompose(pld[1], pld[t])
           other1 == OtherAfterCompose(pld[1], pld[t],
                                       IF t = 1 THEN self1 ELSE pld[t])
           operands == <<IF t = 1 THEN other1 ELSE self1, other1>>
           left == [s \in Slots |-> IF s = t THEN operands[2]
                                    ELSE IF s = 1 THEN operands[1] ELSE pld[s]]
       IN /\ last' = CallOn("compose", <<t, pld[1], pld[t]>>, out, operands)
          /\ IF out.kind = "return"
             THEN /\ pld' = [left EXCEPT ![1] = out.value]
                  /\ origin' = [origin EXCEPT ![1] = <<"compose", <<>>>>]
                  /\ composed' = [composed EXCEPT ![1] = composed[1] + composed[t]]
             ELSE /\ pld' = left
                  /\ UNCHANGED <<origin, composed>>
    /\ UNCHANGED frame

\* pld[1] = pld[1].self_compose(num_times)
SelfCompose(num_times) ==
    /\ composed[1] * num_times <= MaxComposed
    /\ LET out == self_compose(pld[1], num_times)
           operands == <<AfterConversion(pld[1])>>
       IN /\ last' = CallOn("self_compose", <<num_times, pld[1]>>, out, operands)
          /\ IF out.kind = "return"
             THEN /\ pld' = [pld EXCEPT ![1] = out.value]
                  /\ origin' = [origin EXCEPT ![1] = <<"self_compose", <<>>>>]
                  /\ composed' = [composed EXCEPT ![1] = composed[1] * num_times]
             ELSE /\ pld' = [pld EXCEPT ![1] = operands[1]]
                  /\ UNCHANGED <<origin, composed>>
    /\ UNCHANGED frame

Next ==
    \/ \E s \in Slots, c \in CoreCalls : Construct(s, c[1], c[2])
    \/ \E epsilon \in Epsilons : GetDeltaForEpsilon(1, epsilon)
    \/ \E delta \in Deltas : GetEpsilonForDelta(1, delta)
    \/ \E t \in Slots : Compose(t)
    \/ \E num_times \in NumTimes : SelfCompose(num_times)

Spec == Init /\ [][Next]_vars

\* the factories and the queries alone, over every input
NextBuild ==
    \/ \E c \in AllCalls : Construct(2, c[1], c[2])
    \/ \E epsilon \in Epsilons : GetDeltaForEpsilon(2, epsilon)
    \/ \E delta \in Deltas : GetEpsilonForDelta(2, delta)

SpecBuild == Init /\ [][NextBuild]_vars

-----------------------------------------------------------------------------
(* The Gaussian mechanism *)

\* the default of log_mass_truncation_bound (-50 in the code), at the scale
\* of this model's floats: the smallest logarithm whose math.exp is not 0
DefaultLogMassTruncationBound == ExpMin

\* math.sqrt, on the perfect squares
sqrt(n) == CHOOSE r \in 0..n : r * r = n

\* the histogram AdditiveNoisePrivacyLossDistribution.__init__ builds for the
\* Gaussian noise: privacy_loss_tail and the discretization loop determine it
\* from these five values through the normal cdf and ppf; it is held as the
\* values that determine it, not computed
GaussianHistogram(standard_deviation, sensitivity, pessimistic_estimate, value_discretization_interval, log_mass_truncation_bound) ==
    [standard_deviation |-> standard_deviation,
     sensitivity |-> sensitivity,
     pessimistic_estimate |-> pessimistic_estimate,
     value_discretization_interval |-> value_discretization_interval,
     log_mass_truncation_bound |-> log_mass_truncation_bound]

\* tail_probability_mass_function.get(math.inf, 0) of the Gaussian
\* privacy_loss_tail: 0.5 * exp(bound) if pessimistic, no such key otherwise
GaussianInfinityMass(pessimistic_estimate, log_mass_truncation_bound) ==
    IF pessimistic_estimate
    THEN Mul(<<1, 2>>, exp(log_mass_truncation_bound))
    ELSE Zero

\* GaussianPrivacyLossDistribution.__init__
GaussianPrivacyLossDistribution(standard_deviation, sensitivity, pessimistic_estimate, value_discretization_interval, log_mass_truncation_bound) ==
    IF Le(standard_deviation, Zero) THEN Raise("ValueError")
    ELSE IF Le(sensitivity, Zero) THEN Raise("ValueError")
    ELSE Return(
        [standard_deviation |-> standard_deviation,
         sensitivity |-> sensitivity,
         pessimistic_estimate |-> pessimistic_estimate,
         log_mass_truncation_bound |-> log_mass_truncation_bound,
         rounded_probability_mass_function |->
            GaussianHistogram(standard_deviation, sensitivity,
                              pessimistic_estimate,
                              value_discretization_interval,
                              log_mass_truncation_bound),
         value_discretization_interval |-> value_discretization_interval,
         infinity_mass |-> GaussianInfinityMass(pessimistic_estimate,
                                                log_mass_truncation_bound)])

\* the log_mass_truncation_bound GaussianPrivacyLossDistribution.self_compose
\* constructs its result with: it passes none, so the default
SelfComposeBound(self) == DefaultLogMassTruncationBound

\* GaussianPrivacyLossDistribution.self_compose, for num_times a perfect
\* square
Gaussian_self_compose(self, num_times) ==
    GaussianPrivacyLossDistribution(
        self.standard_deviation,
        Mul(self.sensitivity, <<sqrt(num_times), 1>>),
        self.pessimistic_estimate,
        self.value_discretization_interval,
        SelfComposeBound(self))

\* the arguments of GaussianPrivacyLossDistribution
StandardDeviations == {<<0, 1>>, <<1, 1>>, <<2, 1>>}
Sensitivities == {<<0, 1>>, <<1, 2>>, <<1, 1>>}
LogMassTruncationBounds == {DefaultLogMassTruncationBound, <<1, 4>>, <<1, 2>>}
GaussianCalls ==
    StandardDeviations \X Sensitivities \X BOOLEAN \X Intervals
        \X LogMassTruncationBounds

\* num_times of GaussianPrivacyLossDistribution.self_compose
GaussianNumTimes == {1, 4}

FirstGaussian == <<<<1, 1>>, <<1, 1>>, TRUE, <<2, 1>>, DefaultLogMassTruncationBound>>

InitGaussian ==
    /\ pld = [s \in Slots |->
                GaussianPrivacyLossDistribution(FirstGaussian[1],
                    FirstGaussian[2], FirstGaussian[3], FirstGaussian[4],
                    FirstGaussian[5]).value]
    /\ origin = [s \in Slots |-> <<"GaussianPrivacyLossDistribution", FirstGaussian>>]
    /\ last = NoCall
    /\ composed = [s \in Slots |-> 1]
    /\ frame = NoFrame

\* pld[1] = GaussianPrivacyLossDistribution(arguments)
ConstructGaussian(args) ==
    LET out == GaussianPrivacyLossDistribution(args[1], args[2], args[3],
                                               args[4], args[5])
    IN /\ last' = Call("GaussianPrivacyLossDistribution", args, out)
       /\ IF out.kind = "return"
          THEN /\ pld' = [pld EXCEPT ![1] = out.value]
               /\ origin' = [origin EXCEPT ![1] =
                                <<"GaussianPrivacyLossDistribution", args>>]
               /\ composed' = [composed EXCEPT ![1] = 1]
          ELSE UNCHANGED <<pld, origin, composed>>
       /\ UNCHANGED frame

\* pld[1] = pld[1].self_compose(num_times)
SelfComposeGaussian(num_times) ==
    LET out == Gaussian_self_compose(pld[1], num_times)
    IN /\ composed[1] * num_times <= MaxGaussianComposed
       /\ last' = CallOn("self_compose", <<num_times, pld[1]>>, out, <<pld[1]>>)
       /\ IF out.kind = "return"
          THEN /\ pld' = [pld EXCEPT ![1] = out.value]
               /\ origin' = [origin EXCEPT ![1] = <<"self_compose", <<>>>>]
               /\ composed' = [composed EXCEPT ![1] = composed[1] * num_times]
          ELSE UNCHANGED <<pld, origin, composed>>
       /\ UNCHANGED frame

NextGaussian ==
    \/ \E args \in GaussianCalls : ConstructGaussian(args)
    \/ \E num_times \in GaussianNumTimes : SelfComposeGaussian(num_times)

SpecGaussian == InitGaussian /\ [][NextGaussian]_vars

-----------------------------------------------------------------------------
(* convolve_dictionary called directly *)

\* the keys and the masses of the dictionaries handed to convolve_dictionary
HistogramKeys == {-1, 0, 1, 2}
HistogramMasses == {<<0, 1>>, <<1, 4>>, <<1, 2>>}

\* every dictionary over these keys and masses, the empty one included
Histograms == UNION {[keys -> HistogramMasses] : keys \in SUBSET HistogramKeys}

\* {0: 1.0}
PointMassAtZero == Dict([k \in {0} |-> One])

\* convolve_dictionary(dictionary1, dictionary2)
Convolve(dictionary1, dictionary2) ==
    /\ last' = Call("convolve_dictionary",
                    <<Dict(dictionary1), Dict(dictionary2)>>,
                    convolve_dictionary(dictionary1, dictionary2))
    /\ UNCHANGED <<pld, origin, composed>>
    /\ UNCHANGED frame

NextConvolve ==
    \/ \E H \in Histograms : Convolve(PointMassAtZero, H)
    \/ \E H \in Histograms : Convolve(H, PointMassAtZero)

SpecConvolve == Init /\ [][NextConvolve]_vars

-----------------------------------------------------------------------------
(* Additive noise mechanisms *)

\* How the noise models hold their numbers.
\*   Laplace: parameter is the rational b with 1/b an integer; the sensitivity
\*     s and every point x of the noise axis are held by their exponentials
\*     (S stands for ln S, 0 for -inf, PosInf for +inf), so the privacy loss
\*     (|x - s| - |x|) / b is held by (e^|x-s| / e^|x|)^(1/b).
\*   Discrete Laplace: parameter a is held by its exponential A; the
\*     sensitivity is an integer and a point x is the rational <<x, 1>>, with
\*     PosInf and NegInf for the infinities.
\*   Gaussian: a point x is held by U = e^(x * s / sigma^2) and the
\*     sensitivity by S = e^(s * s / sigma^2), so the privacy loss
\*     0.5 * s * (s - 2x) / sigma^2 is held by sqrt(S) / U.  scipy's normal
\*     cdf is not rational: the logistic cdf U / (1 + U), symmetric about 0
\*     and strictly increasing like the normal one, stands for it, with its
\*     exact inverse for ppf.
\* The cdf values are scipy's and are exact here; privacy losses and the
\* interval are logarithms as everywhere in this module.

NegInf == <<-1, 0>>

\* y in place of min(x, y)
Min2Second(x, y) == y

\* min(x, y)
Min2(x, y) == IF Lt(y, x) THEN y ELSE x

\* x in place of abs(x)
ExpSigned(x) == x

\* abs(x) of a float held by its exponential
ExpAbs(x) == IF Lt(x, One) THEN Neg(x) ELSE x

\* x / n for a float x held by its exponential: the n-th root, on the perfect
\* powers
Root(x, n) ==
    <<CHOOSE r \in 0..x[1] : IntPow(r, n) = x[1],
      CHOOSE r \in 0..x[2] : IntPow(r, n) = x[2]>>

\* math.e to the precision the rounding of a privacy loss below 3 needs
Euler == <<19, 7>>

\* 1 / parameter of the Laplace noise
InverseScale(self) == Div(One, self.parameter)[1]

\* self.noise_cdf(x): scipy.stats laplace(scale=parameter).cdf,
\* dlaplace(parameter).cdf and norm(scale=standard_deviation).cdf
noise_cdf(self, x) ==
    CASE self.kind = "laplace" ->
            IF Lt(x, One)
            THEN Mul(<<1, 2>>, Pow(x, InverseScale(self)))
            ELSE Sub(One, Mul(<<1, 2>>, Pow(x, -InverseScale(self))))
      [] self.kind = "discrete_laplace" ->
            IF x = PosInf THEN One
            ELSE IF x = NegInf THEN Zero
            ELSE IF x[1] >= 0
            THEN Sub(One, Div(Pow(self.parameter, -x[1]),
                              Add(self.parameter, One)))
            ELSE Div(Pow(self.parameter, x[1] + 1), Add(self.parameter, One))
      [] self.kind = "gaussian" ->
            IF x = PosInf THEN One ELSE Div(x, Add(One, x))

\* self.privacy_loss(x) of the three mechanisms, for a finite x
privacy_loss(self, x) ==
    CASE self.kind = "laplace" ->
            Pow(Div(ExpAbs(Div(x, self.sensitivity)), ExpAbs(x)),
                InverseScale(self))
      [] self.kind = "discrete_laplace" ->
            Pow(self.parameter, Abs(x[1] - self.sensitivity) - Abs(x[1]))
      [] self.kind = "gaussian" ->
            Div(Root(self.sensitivity, 2), x)

\* self.inverse_privacy_loss(privacy_loss) of the three mechanisms
inverse_privacy_loss(self, loss) ==
    CASE self.kind = "laplace" ->
            IF Lt(Pow(self.sensitivity, InverseScale(self)), loss) THEN Zero
            ELSE IF Le(loss, Pow(self.sensitivity, -InverseScale(self)))
            THEN PosInf
            ELSE Root(Div(self.sensitivity, Root(loss, InverseScale(self))), 2)
      [] self.kind = "discrete_laplace" ->
            IF Lt(Pow(self.parameter, self.sensitivity), loss) THEN NegInf
            ELSE IF Le(loss, Pow(self.parameter, -self.sensitivity))
            THEN PosInf
            ELSE <<floor(Div(Pow(self.parameter, self.sensitivity), loss),
                         Pow(self.parameter, 2)), 1>>
      [] self.kind = "gaussian" ->
            Div(Root(self.sensitivity, 2), loss)

\* x - self.sensitivity on the noise axis
MinusSensitivity(self, x) ==
    IF self.kind = "discrete_laplace"
    THEN IF x[2] = 0 THEN x ELSE <<x[1] - self.sensitivity, 1>>
    ELSE Div(x, self.sensitivity)

\* TailPrivacyLossDistribution(lower_x_truncation, upper_x_truncation,
\* tail_probability_mass_function), the dictionary as its list of items
TailPrivacyLossDistribution(lower_x_truncation, upper_x_truncation, tail_probability_mass_function) ==
    [lower_x_truncation |-> lower_x_truncation,
     upper_x_truncation |-> upper_x_truncation,
     tail_probability_mass_function |-> tail_probability_mass_function]

\* self.privacy_loss_tail() of the three mechanisms
privacy_loss_tail(self) ==
    CASE self.kind = "laplace" ->
            TailPrivacyLossDistribution(One, self.sensitivity,
                <<<<Pow(self.sensitivity, InverseScale(self)), <<1, 2>>>>,
                  <<Pow(self.sensitivity, -InverseScale(self)),
                    noise_cdf(self, Neg(self.sensitivity))>>>>)
      [] self.kind = "discrete_laplace" ->
            TailPrivacyLossDistribution(One, <<self.sensitivity - 1, 1>>,
                <<<<Pow(self.parameter, self.sensitivity),
                    noise_cdf(self, Zero)>>,
                  <<Pow(self.parameter, -self.sensitivity),
                    noise_cdf(self, <<-self.sensitivity, 1>>)>>>>)
      [] self.kind = "gaussian" ->
            LET tail_mass == Mul(<<1, 2>>, exp(self.log_mass_truncation_bound))
                lower_x_truncation == Div(tail_mass, Sub(One, tail_mass))
                upper_x_truncation == Neg(lower_x_truncation)
            IN IF self.pessimistic_estimate
               THEN TailPrivacyLossDistribution(lower_x_truncation,
                        upper_x_truncation,
                        <<<<PosInf, tail_mass>>,
                          <<privacy_loss(self, upper_x_truncation), tail_mass>>>>)
               ELSE TailPrivacyLossDistribution(lower_x_truncation,
                        upper_x_truncation,
                        <<<<privacy_loss(self, lower_x_truncation), tail_mass>>>>)

\* the rounded tail: every finite privacy loss of the tail at
\* round_fn(privacy_loss / value_discretization_interval)
RECURSIVE RoundedTail(_, _, _)
RoundedTail(self, items, i) ==
    IF i = 0 THEN EmptyDict
    ELSE IF items[i][1] = PosInf THEN RoundedTail(self, items, i - 1)
    ELSE DictAdd(RoundedTail(self, items, i - 1),
                 round_fn(self.pessimistic_estimate, items[i][1],
                          self.value_discretization_interval),
                 items[i][2])

\* the bucket the loop over the integers gives x:
\* round_fn(self.privacy_loss(x)), the privacy loss itself rounded
DiscreteBucket(self, x) ==
    round_fn(self.pessimistic_estimate, privacy_loss(self, <<x, 1>>), Euler)

\* the loop over range(ceil(lower_x_truncation), floor(upper_x_truncation) + 1)
\* from x on
RECURSIVE DiscreteLoop(_, _, _, _)
DiscreteLoop(self, rounded_probability_mass_function, x, stop) ==
    IF x > stop THEN rounded_probability_mass_function
    ELSE DiscreteLoop(self,
            DictAdd(rounded_probability_mass_function, DiscreteBucket(self, x),
                    Sub(noise_cdf(self, <<x, 1>>), noise_cdf(self, <<x - 1, 1>>))),
            x + 1, stop)

\* the iterations of the while loop over the continuous noise axis from
\* lower_x and rounded_down_value on, each with its interval, its step, the
\* bucket round_fn(rounded_down_value + 0.5) and the mass it adds there
RECURSIVE Iterations(_, _, _, _)
Iterations(self, upper_x_truncation, lower_x, rounded_down_value) ==
    IF ~Lt(lower_x, upper_x_truncation) THEN <<>>
    ELSE LET upper_x == Min2(upper_x_truncation,
                             inverse_privacy_loss(self,
                                 Pow(self.value_discretization_interval,
                                     rounded_down_value)))
         IN <<[lower_x |-> lower_x,
               upper_x |-> upper_x,
               rounded_down_value |-> rounded_down_value,
               rounded_value |-> IF self.pessimistic_estimate
                                 THEN rounded_down_value + 1
                                 ELSE rounded_down_value,
               probability_mass |-> Sub(noise_cdf(self, upper_x),
                                        noise_cdf(self, lower_x))]>>
            \o Iterations(self, upper_x_truncation, upper_x,
                          rounded_down_value - 1)

\* the while loop started from the privacy loss of lower_x_truncation
\* rounded up
WhileLoopFromCeil(self) ==
    LET tail == privacy_loss_tail(self)
    IN Iterations(self, tail.upper_x_truncation, tail.lower_x_truncation,
                  ceil(privacy_loss(self, tail.lower_x_truncation),
                       self.value_discretization_interval))

\* the while loop of a noise: its iterations from lower_x_truncation on
WhileLoop(self) ==
    LET tail == privacy_loss_tail(self)
    IN Iterations(self, tail.upper_x_truncation, tail.lower_x_truncation,
                  floor(privacy_loss(self, tail.lower_x_truncation),
                        self.value_discretization_interval))

\* rounded_probability_mass_function[rounded_value] += probability_mass of
\* the first i iterations
RECURSIVE AddIterations(_, _, _)
AddIterations(rounded_probability_mass_function, iterations, i) ==
    IF i = 0 THEN rounded_probability_mass_function
    ELSE DictAdd(AddIterations(rounded_probability_mass_function, iterations, i - 1),
                 iterations[i].rounded_value, iterations[i].probability_mass)

\* sensitivity < 0, where the constructor tests sensitivity <= 0
SensitivityNegative(self) ==
    IF self.kind = "discrete_laplace"
    THEN self.sensitivity < 0 ELSE Lt(self.sensitivity, One)

\* sensitivity <= 0
SensitivityNotPositive(self) ==
    IF self.kind = "discrete_laplace"
    THEN self.sensitivity <= 0 ELSE Le(self.sensitivity, One)

\* the object once __init__ has filled its histogram and its infinity mass
\* from the tail and the iterations of the while loop: the rounded tail,
\* then the loop over the integers or the masses of the iterations
Discretized(self, tail, iterations) ==
    [self EXCEPT
        !.rounded_probability_mass_function =
            IF self.discrete_noise
            THEN DiscreteLoop(self,
                    RoundedTail(self, tail.tail_probability_mass_function,
                                Len(tail.tail_probability_mass_function)),
                    tail.lower_x_truncation[1], tail.upper_x_truncation[1])
            ELSE AddIterations(
                    RoundedTail(self, tail.tail_probability_mass_function,
                                Len(tail.tail_probability_mass_function)),
                    iterations, Len(iterations)),
        !.infinity_mass =
            IF \E i \in DOMAIN tail.tail_probability_mass_function :
                    tail.tail_probability_mass_function[i][1] = PosInf
            THEN tail.tail_probability_mass_function[
                    CHOOSE i \in DOMAIN tail.tail_probability_mass_function :
                        tail.tail_probability_mass_function[i][1] = PosInf][2]
            ELSE Zero]

\* AdditiveNoisePrivacyLossDistribution.__init__ on the object whose
\* subclass fields are set
AdditiveNoisePrivacyLossDistribution(self) ==
    IF SensitivityNotPositive(self) THEN Raise("ValueError")
    ELSE Return(Discretized(self, privacy_loss_tail(self), WhileLoop(self)))

\* the object before AdditiveNoisePrivacyLossDistribution.__init__ has run
NoiseObject(kind, parameter, sensitivity, pessimistic_estimate, value_discretization_interval, log_mass_truncation_bound) ==
    [kind |-> kind,
     parameter |-> parameter,
     sensitivity |-> sensitivity,
     pessimistic_estimate |-> pessimistic_estimate,
     discrete_noise |-> (kind = "discrete_laplace"),
     log_mass_truncation_bound |-> log_mass_truncation_bound,
     rounded_probability_mass_function |-> EmptyDict,
     value_discretization_interval |-> value_discretization_interval,
     infinity_mass |-> Zero]

\* LaplacePrivacyLossDistribution.__init__
LaplacePrivacyLossDistribution(parameter, sensitivity, pessimistic_estimate, value_discretization_interval) ==
    IF Le(parameter, Zero) THEN Raise("ValueError")
    ELSE AdditiveNoisePrivacyLossDistribution(
            NoiseObject("laplace", parameter, sensitivity, pessimistic_estimate,
                        value_discretization_interval, One))

\* DiscreteLaplacePrivacyLossDistribution.__init__; the sensitivity comes
\* with its Python type, int or float
DiscreteLaplacePrivacyLossDistribution(parameter, sensitivity, pessimistic_estimate, value_discretization_interval) ==
    IF Le(parameter, One) THEN Raise("ValueError")
    ELSE IF ~sensitivity.int THEN Raise("ValueError")
    ELSE AdditiveNoisePrivacyLossDistribution(
            NoiseObject("discrete_laplace", parameter, sensitivity.value[1],
                        pessimistic_estimate, value_discretization_interval, One))

\* the histogram of GaussianPrivacyLossDistribution.__init__ for a positive
\* standard_deviation, computed with the cdf that stands for the normal one
GaussianNoise(sensitivity, pessimistic_estimate, value_discretization_interval, log_mass_truncation_bound) ==
    AdditiveNoisePrivacyLossDistribution(
        NoiseObject("gaussian", One, sensitivity, pessimistic_estimate,
                    value_discretization_interval, log_mass_truncation_bound))

\* AdditiveNoisePrivacyLossDistribution.get_delta_for_epsilon
AdditiveNoise_get_delta_for_epsilon(self, epsilon) ==
    LET x_cutoff == inverse_privacy_loss(self, epsilon)
    IN IF exp_raises(epsilon) THEN Raise("OverflowError")
       ELSE Return(Sub(noise_cdf(self, x_cutoff),
                       Mul(exp(epsilon),
                           noise_cdf(self, MinusSensitivity(self, x_cutoff)))))

\* LaplacePrivacyLossDistribution.from_privacy_guarantee; the parameter
\* sensitivity / epsilon where it is 1 or 1/2
Laplace_from_privacy_guarantee(privacy_parameters, sensitivity, pessimistic_estimate, value_discretization_interval) ==
    IF privacy_parameters.epsilon = One THEN Raise("ZeroDivisionError")
    ELSE LaplacePrivacyLossDistribution(
            CHOOSE parameter \in {<<1, 2>>, <<1, 1>>} :
                Pow(sensitivity, Div(One, parameter)[1]) = privacy_parameters.epsilon,
            sensitivity, pessimistic_estimate, value_discretization_interval)

\* DiscreteLaplacePrivacyLossDistribution.from_privacy_guarantee:
\* epsilon / sensitivity and math.ceil(sensitivity)
DiscreteLaplace_from_privacy_guarantee(privacy_parameters, sensitivity, pessimistic_estimate, value_discretization_interval) ==
    IF sensitivity.value = Zero THEN Raise("ZeroDivisionError")
    ELSE DiscreteLaplacePrivacyLossDistribution(
            Root(Pow(privacy_parameters.epsilon, sensitivity.value[2]),
                 sensitivity.value[1]),
            [int |-> TRUE,
             value |-> <<(sensitivity.value[1] + sensitivity.value[2] - 1)
                            \div sensitivity.value[2], 1>>],
            pessimistic_estimate, value_discretization_interval)

\* a Python number with its type
PyInt(n) == [int |-> TRUE, value |-> <<n, 1>>]
PyFloat(x) == [int |-> FALSE, value |-> x]

\* the calls of the noise mechanisms.  First the constructor calls that pass
\* the validation: the Laplace intervals are ln 4 and ln 16 and its
\* sensitivities ln 4 and ln 16, so that every point of its loop is the
\* logarithm of a rational.  Then constructor calls with a parameter or a
\* sensitivity that is zero, negative or, for the discrete Laplace noise, a
\* float.  Then the from_privacy_guarantee calls of the Laplace and discrete
\* Laplace noises, those where epsilon / sensitivity or its inverse is the
\* logarithm of a rational.
NoiseCalls ==
    {<<"LaplacePrivacyLossDistribution", <<<<1, 1>>, s, pess, g>>>> :
        s \in {<<4, 1>>, <<16, 1>>}, pess \in BOOLEAN,
        g \in {<<4, 1>>, <<16, 1>>}}
    \cup {<<"LaplacePrivacyLossDistribution", <<<<1, 2>>, s, pess, <<16, 1>>>>>> :
        s \in {<<4, 1>>, <<16, 1>>}, pess \in BOOLEAN}
    \cup {<<"DiscreteLaplacePrivacyLossDistribution", <<a, PyInt(s), pess, g>>>> :
        a \in {<<2, 1>>, <<4, 1>>}, s \in 1..4, pess \in BOOLEAN,
        g \in Intervals}
    \cup {<<"GaussianPrivacyLossDistribution (positive standard_deviation)",
            <<s, pess, g, bound>>>> :
        s \in {<<4, 1>>, <<16, 1>>}, pess \in BOOLEAN, g \in Intervals,
        bound \in {<<1, 4>>, <<1, 2>>, <<1, 1>>}}
    \cup {<<"LaplacePrivacyLossDistribution", <<c[1], c[2], TRUE, <<16, 1>>>>>> :
        c \in {<<<<0, 1>>, <<4, 1>>>>, <<<<-1, 1>>, <<4, 1>>>>,
               <<<<1, 1>>, <<1, 1>>>>, <<<<1, 2>>, <<1, 4>>>>,
               <<<<0, 1>>, <<1, 1>>>>}}
    \cup {<<"DiscreteLaplacePrivacyLossDistribution", <<c[1], c[2], TRUE, <<2, 1>>>>>> :
        c \in {<<<<1, 1>>, PyInt(1)>>, <<<<1, 2>>, PyInt(2)>>,
               <<<<2, 1>>, PyInt(0)>>, <<<<4, 1>>, PyInt(-1)>>,
               <<<<2, 1>>, PyFloat(<<2, 1>>)>>, <<<<2, 1>>, PyFloat(<<3, 2>>)>>,
               <<<<1, 1>>, PyFloat(<<2, 1>>)>>, <<<<2, 1>>, PyFloat(<<-1, 1>>)>>}}
    \cup {<<"LaplacePrivacyLossDistribution.from_privacy_guarantee",
            <<[epsilon |-> c[1], delta |-> d], c[2], pess, c[3]>>>> :
        c \in {<<<<4, 1>>, <<4, 1>>, <<4, 1>>>>,
               <<<<4, 1>>, <<4, 1>>, <<16, 1>>>>,
               <<<<16, 1>>, <<4, 1>>, <<16, 1>>>>,
               <<<<1, 1>>, <<4, 1>>, <<4, 1>>>>},
        d \in {<<0, 1>>, <<1, 4>>}, pess \in BOOLEAN}
    \cup {<<"DiscreteLaplacePrivacyLossDistribution.from_privacy_guarantee",
            <<[epsilon |-> c[1], delta |-> d], c[2], pess, <<4, 1>>>>>> :
        c \in {<<<<2, 1>>, PyInt(1)>>, <<<<4, 1>>, PyInt(1)>>,
               <<<<4, 1>>, PyInt(2)>>, <<<<4, 1>>, PyFloat(<<2, 1>>)>>,
               <<<<4, 1>>, PyFloat(<<1, 2>>)>>, <<<<8, 1>>, PyFloat(<<3, 2>>)>>,
               <<<<4, 1>>, PyInt(0)>>},
        d \in {<<0, 1>>, <<1, 4>>}, pess \in BOOLEAN}

\* GaussianPrivacyLossDistribution calls with a standard_deviation or a
\* sensitivity that is zero or negative, and two with both positive
GaussianValidationCalls ==
    {<<c[1], c[2], TRUE, <<2, 1>>, DefaultLogMassTruncationBound>> :
        c \in {<<<<0, 1>>, <<1, 1>>>>, <<<<-1, 1>>, <<1, 1>>>>,
               <<<<1, 1>>, <<0, 1>>>>, <<<<2, 1>>, <<-1, 2>>>>,
               <<<<0, 1>>, <<0, 1>>>>, <<<<1, 1>>, <<1, 1>>>>,
               <<<<2, 1>>, <<1, 2>>>>}}

\* the outcomes of all the noise calls <<name, arguments>>, each computed
\* once
NoiseOutcomes ==
    [c \in NoiseCalls |->
        CASE c[1] = "LaplacePrivacyLossDistribution" ->
                LaplacePrivacyLossDistribution(c[2][1], c[2][2], c[2][3], c[2][4])
          [] c[1] = "DiscreteLaplacePrivacyLossDistribution" ->
                DiscreteLaplacePrivacyLossDistribution(c[2][1], c[2][2], c[2][3],
                                                       c[2][4])
          [] c[1] = "GaussianPrivacyLossDistribution (positive standard_deviation)" ->
                GaussianNoise(c[2][1], c[2][2], c[2][3], c[2][4])
          [] c[1] = "LaplacePrivacyLossDistribution.from_privacy_guarantee" ->
                Laplace_from_privacy_guarantee(c[2][1], c[2][2], c[2][3], c[2][4])
          [] c[1] = "DiscreteLaplacePrivacyLossDistribution.from_privacy_guarantee" ->
                DiscreteLaplace_from_privacy_guarantee(c[2][1], c[2][2], c[2][3],
                                                       c[2][4])]

\* the privacy losses and epsilons the noise methods are asked about: for
\* the Laplace noise those whose points are logarithms of rationals
Losses(self) ==
    IF self.kind = "laplace"
    THEN {Pow(<<4, 1>>, InverseScale(self) * k) : k \in -2..2}
    ELSE {<<1, 16>>, <<1, 4>>, <<1, 2>>, <<1, 1>>, <<2, 1>>, <<4, 1>>, <<16, 1>>}

\* the points of the noise axis the noise methods are asked about
Points(self) ==
    IF self.kind = "discrete_laplace"
    THEN {<<k, 1>> : k \in -2..5}
    ELSE {<<1, 32>>, <<1, 4>>, <<1, 2>>, <<1, 1>>, <<2, 1>>, <<3, 1>>,
          <<4, 1>>, <<8, 1>>, <<16, 1>>, <<32, 1>>}

FirstNoise == <<"LaplacePrivacyLossDistribution",
                <<<<1, 1>>, <<4, 1>>, TRUE, <<4, 1>>>>>>

InitNoise ==
    /\ pld = [s \in Slots |-> NoiseOutcomes[FirstNoise].value]
    /\ origin = [s \in Slots |-> FirstNoise]
    /\ last = NoCall
    /\ composed = [s \in Slots |-> 1]
    /\ frame = NoFrame

\* pld[1] = <noise constructor or from_privacy_guarantee>(arguments)
ConstructNoise(call) ==
    LET out == NoiseOutcomes[call]
    IN /\ last' = Call(call[1], call[2], out)
       /\ IF out.kind = "return"
          THEN /\ pld' = [pld EXCEPT ![1] = out.value]
               /\ origin' = [origin EXCEPT ![1] = call]
          ELSE UNCHANGED <<pld, origin>>
       /\ UNCHANGED composed
       /\ UNCHANGED frame

\* pld[1].get_delta_for_epsilon(epsilon), pld[1].privacy_loss(x) or
\* pld[1].inverse_privacy_loss(privacy_loss) on a noise PLD
NoiseMethod(op) ==
    /\ "kind" \in DOMAIN pld[1]
    /\ \E argument \in (IF op = "privacy_loss" THEN Points(pld[1])
                         ELSE Losses(pld[1])) :
          last' = CallOn(op, <<argument>>,
                      CASE op = "get_delta_for_epsilon" ->
                              AdditiveNoise_get_delta_for_epsilon(pld[1], argument)
                        [] op = "privacy_loss" ->
                              Return(privacy_loss(pld[1], argument))
                        [] op = "inverse_privacy_loss" ->
                              Return(inverse_privacy_loss(pld[1], argument)),
                      <<pld[1]>>)
    /\ UNCHANGED <<pld, origin, composed>>
    /\ UNCHANGED frame

NextNoise ==
    \/ \E call \in NoiseCalls : ConstructNoise(call)
    \/ \E args \in GaussianValidationCalls : ConstructGaussian(args)
    \/ \E op \in {"get_delta_for_epsilon", "privacy_loss", "inverse_privacy_loss"} :
          NoiseMethod(op)

SpecNoise == InitNoise /\ [][NextNoise]_vars

-----------------------------------------------------------------------------
(* GaussianPrivacyLossDistribution.from_privacy_guarantee, step by step *)

\* The standard deviations of the search are floats: rationals m * 2^e with a
\* mantissa m of MantissaBits bits (53 in Python), every arithmetic result
\* rounded to the nearest of them, ties to the even mantissa.  The tolerance
\* 1e-7 of the search is held by 1/2: as in Python, the floats above
\* 2^MantissaBits * tolerance are further apart than the tolerance.
\* A call is held by the two numbers its arguments determine the search by:
\* initial_standard_deviation, the float
\* sqrt(2 * ln(1.5 / delta)) * sensitivity / epsilon, and
\* required_standard_deviation, the real number at and above which the
\* Gaussian mechanism of that sensitivity has delta-at-epsilon <= delta (the
\* delta of the Gaussian mechanism decreases as the standard deviation grows).

\* the floats of the search: 0 and m * 2^e for the mantissas m of
\* MantissaBits bits and the exponents e the searches below reach
Floats ==
    {Zero} \cup {Mul(<<m, 1>>, Pow(Two, e)) :
                    m \in IntPow(2, MantissaBits - 1) .. IntPow(2, MantissaBits) - 1,
                    e \in -(MantissaBits + 3) .. 4}

\* the float nearest to x, for every sum x and every difference x >= 0 of
\* two floats: x is scaled to a mantissa between 2^(MantissaBits-1) and
\* 2^MantissaBits and the mantissa rounded to the nearest integer, ties to
\* the even one
Rounded ==
    Dict([x \in {Add(a, b) : a, b \in Floats}
                    \cup {Sub(c[1], c[2]) :
                            c \in {d \in Floats \X Floats : Le(d[2], d[1])}} |->
        IF x[1] = 0 THEN x
        ELSE LET e == floor(x, Two) - (MantissaBits - 1)
                 q == Mul(x, Pow(Two, -e))
                 down == q[1] \div q[2]
                 twice == Sub(Mul(Two, q), <<2 * down, 1>>)
                 m == IF Lt(twice, One) THEN down
                      ELSE IF Lt(One, twice) THEN down + 1
                      ELSE IF down % 2 = 0 THEN down ELSE down + 1
             IN Mul(<<m, 1>>, Pow(Two, e))])

\* the float result of an addition or a subtraction whose exact result is x
RoundToFloat(x) == Rounded[x]

\* the 1e-7 of while upper_standard_deviation - lower_standard_deviation > 1e-7
Tolerance == <<1, 2>>

\* GaussianPrivacyLossDistribution(standard_deviation, sensitivity=sensitivity,
\* log_mass_truncation_bound=0).get_delta_for_epsilon(epsilon) <= delta
MeetsTarget(call, standard_deviation) ==
    Le(call.required_standard_deviation, standard_deviation)

\* an iteration of the binary search with upper and lower exchanged
BisectStepExchanged(locals) ==
    LET mid_standard_deviation ==
            Div(RoundToFloat(Add(locals.upper_standard_deviation,
                                 locals.lower_standard_deviation)), Two)
    IN IF MeetsTarget(locals.call, mid_standard_deviation)
       THEN [locals EXCEPT !.lower_standard_deviation = mid_standard_deviation]
       ELSE [locals EXCEPT !.upper_standard_deviation = mid_standard_deviation]

\* an iteration of the binary search: the body of the second while loop
BisectStep(locals) ==
    LET mid_standard_deviation ==
            Div(RoundToFloat(Add(locals.upper_standard_deviation,
                                 locals.lower_standard_deviation)), Two)
    IN IF MeetsTarget(locals.call, mid_standard_deviation)
       THEN [locals EXCEPT !.upper_standard_deviation = mid_standard_deviation]
       ELSE [locals EXCEPT !.lower_standard_deviation = mid_standard_deviation]

\* the from_privacy_guarantee calls: sensitivity 1, rounding up, interval ln 2
SearchCalls ==
    [initial_standard_deviation : {<<1, 1>>, <<3, 1>>, <<5, 1>>, <<12, 1>>},
     required_standard_deviation : {<<1, 3>>, <<3, 4>>, <<11, 4>>, <<9, 2>>,
                                    <<13, 2>>, <<21, 2>>, <<27, 2>>},
     sensitivity : {<<1, 1>>},
     pessimistic_estimate : {TRUE},
     value_discretization_interval : {<<2, 1>>}]

\* GaussianPrivacyLossDistribution.from_privacy_guarantee is called:
\* upper_standard_deviation = initial_standard_deviation
StartSearch(call) ==
    /\ frame.pc \in {"idle", "returned"}
    /\ frame' = [pc |-> "doubling",
                 call |-> call,
                 upper_standard_deviation |-> call.initial_standard_deviation,
                 lower_standard_deviation |-> Zero]
    /\ UNCHANGED <<pld, origin, last, composed>>

\* the test of the first while loop, and its body upper_standard_deviation
\* *= 2 or, when the test fails, lower_standard_deviation = 0
Doubling ==
    /\ frame.pc = "doubling"
    /\ frame' = IF MeetsTarget(frame.call, frame.upper_standard_deviation)
                THEN [frame EXCEPT !.pc = "bisecting",
                                   !.lower_standard_deviation = Zero]
                ELSE [frame EXCEPT !.upper_standard_deviation =
                                        RoundToFloat(Add(@, @))]
    /\ UNCHANGED <<pld, origin, last, composed>>

\* an iteration of the second while loop
Bisecting ==
    /\ frame.pc = "bisecting"
    /\ Lt(Tolerance, RoundToFloat(Sub(frame.upper_standard_deviation,
                                      frame.lower_standard_deviation)))
    /\ frame' = BisectStep(frame)
    /\ UNCHANGED <<pld, origin, last, composed>>

\* the second while loop ends: pld[1] = the GaussianPrivacyLossDistribution
\* of upper_standard_deviation, with the default log_mass_truncation_bound
ReturnSearch ==
    /\ frame.pc = "bisecting"
    /\ ~Lt(Tolerance, RoundToFloat(Sub(frame.upper_standard_deviation,
                                       frame.lower_standard_deviation)))
    /\ LET args == <<frame.upper_standard_deviation, frame.call.sensitivity,
                     frame.call.pessimistic_estimate,
                     frame.call.value_discretization_interval,
                     DefaultLogMassTruncationBound>>
           out == GaussianPrivacyLossDistribution(args[1], args[2], args[3],
                                                  args[4], args[5])
       IN /\ last' = Call("GaussianPrivacyLossDistribution.from_privacy_guarantee",
                          <<frame.call>>, out)
          /\ pld' = [pld EXCEPT ![1] = out.value]
          /\ origin' = [origin EXCEPT ![1] =
                            <<"GaussianPrivacyLossDistribution", args>>]
          /\ composed' = [composed EXCEPT ![1] = 1]
    /\ frame' = [frame EXCEPT !.pc = "returned"]

NextSearch ==
    \/ \E call \in SearchCalls : StartSearch(call)
    \/ Doubling
    \/ Bisecting
    \/ ReturnSearch

\* a call that has started keeps running: its next step is taken
SpecSearch ==
    /\ InitGaussian
    /\ [][NextSearch]_vars
    /\ WF_vars(Doubling \/ Bisecting \/ ReturnSearch)

-----------------------------------------------------------------------------
(* Properties *)

\* the mass a PLD holds at bucket k (0 where k is no key)
Mass(p, k) ==
    IF k \in DOMAIN p.rounded_probability_mass_function
    THEN p.rounded_probability_mass_function[k] ELSE Zero

\* infinity_mass + sum(histogram.values())
TotalMass(p) ==
    Add(p.infinity_mass, SumValues(p.rounded_probability_mass_function))

\* the last call is pld[s].get_epsilon_for_delta(delta)
AskedEpsilon == last.op = "get_epsilon_for_delta"
\* the last call is pld[s].get_delta_for_epsilon(epsilon)
AskedDelta == last.op = "get_delta_for_epsilon"
\* the object the last query was made on, and the query's argument
Queried == pld[last.args[1]]
Argument == last.args[2]

\* the epsilons a returned epsilon is compared with: the query arguments and
\* the bucket values of the queried PLD
Candidates(p) ==
    Epsilons \cup {BucketValue(p, i) : i \in DOMAIN p.rounded_probability_mass_function}

\* C1: whenever get_epsilon_for_delta(delta) is called with
\* infinity_mass <= delta and returns e, then e is finite and
\* get_delta_for_epsilon(e) <= delta.
C1_Soundness ==
    (AskedEpsilon /\ last.out.kind = "return"
        /\ Le(Queried.infinity_mass, Argument))
    => /\ last.out.value # PosInf
       /\ Le(get_delta_for_epsilon(Queried, last.out.value), Argument)

\* C1 witness: a composed PLD answered with an epsilon > 0 taken from the
\* final logarithm
C1_Witness ==
    /\ AskedEpsilon /\ last.out.kind = "return"
    /\ Le(Queried.infinity_mass, Argument)
    /\ composed[1] >= 2
    /\ last.out.value # PosInf /\ Lt(One, last.out.value)
    /\ last.out.value \notin {BucketValue(Queried, i) :
            i \in DOMAIN Queried.rounded_probability_mass_function}

\* C2: the epsilon returned by get_epsilon_for_delta(delta), for
\* infinity_mass <= delta, is the smallest non-negative one whose divergence
\* is at most delta: it is 0 when get_delta_for_epsilon(0) <= delta, and no
\* smaller non-negative epsilon has divergence <= delta.
C2_Minimality ==
    (AskedEpsilon /\ last.out.kind = "return"
        /\ Le(Queried.infinity_mass, Argument))
    => /\ Le(get_delta_for_epsilon(Queried, One), Argument)
            => last.out.value = One
       /\ \A e \in Candidates(Queried) :
            (Le(One, e) /\ Lt(e, last.out.value))
            => ~Le(get_delta_for_epsilon(Queried, e), Argument)

\* C3: get_epsilon_for_delta(delta) returns +infinity if
\* infinity_mass > delta, and otherwise returns a finite epsilon >= 0: it
\* raises nothing.
C3_Total ==
    AskedEpsilon
    => IF Lt(Argument, Queried.infinity_mass)
       THEN last.out = Return(PosInf)
       ELSE /\ last.out.kind = "return"
            /\ last.out.value # PosInf
            /\ Le(One, last.out.value)

\* C7: every PLD the caller holds has 0 <= infinity_mass <= 1 and
\* infinity_mass + sum of the histogram masses <= 1.
C7_MassInvariant ==
    \A s \in Slots :
        /\ Le(Zero, pld[s].infinity_mass)
        /\ Le(pld[s].infinity_mass, One)
        /\ Le(TotalMass(pld[s]), One)

\* C7 witness: a composition of three constructed PLDs, with mass at
\* infinity and in the histogram
C7_Witness ==
    /\ composed[1] = 3
    /\ Lt(Zero, pld[1].infinity_mass) /\ Lt(pld[1].infinity_mass, One)
    /\ DOMAIN pld[1].rounded_probability_mass_function # {}

\* C8: no histogram stores a bucket whose mass is <= 0.
C8_Sparse ==
    \A s \in Slots :
        \A k \in DOMAIN pld[s].rounded_probability_mass_function :
            Lt(Zero, pld[s].rounded_probability_mass_function[k])

\* C9: compose on two PLDs of different value_discretization_interval
\* raises ValueError and both operands are as they were before the call.
C9_IncompatibleGranularity ==
    (last.op = "compose"
        /\ last.args[2].value_discretization_interval
            # last.args[3].value_discretization_interval)
    => /\ last.out = Raise("ValueError")
       /\ pld[1] = last.args[2]
       /\ pld[last.args[1]] = last.args[3]

\* C9 witness: compose was called on intervals ln 2 and ln 4
C9_Witness ==
    /\ last.op = "compose"
    /\ last.args[2].value_discretization_interval
        # last.args[3].value_discretization_interval

\* the keys the convolution of the histograms of a and b may hold
SumKeys(a, b) ==
    {i + j : i \in DOMAIN a.rounded_probability_mass_function,
             j \in DOMAIN b.rounded_probability_mass_function}

\* sum over all i + j = k of a[i] * b[j]
ConvolutionAt(a, b, k) ==
    LET pairs == {ij \in (DOMAIN a.rounded_probability_mass_function)
                        \X (DOMAIN b.rounded_probability_mass_function) :
                    ij[1] + ij[2] = k}
    IN SumOver([ij \in pairs |-> Mul(Mass(a, ij[1]), Mass(b, ij[2]))], pairs)

\* C10: compose on two PLDs A, B of equal value_discretization_interval
\* returns a PLD of that interval whose mass at every key k is the sum over
\* i + j = k of A[i] * B[j] and whose infinity_mass is a + b - a * b.
C10_Convolution ==
    (last.op = "compose"
        /\ last.args[2].value_discretization_interval
            = last.args[3].value_discretization_interval)
    => /\ last.out.kind = "return"
       /\ LET a == last.args[2]
              b == last.args[3]
              r == last.out.value
          IN /\ r.value_discretization_interval = a.value_discretization_interval
             /\ \A k \in SumKeys(a, b) \cup DOMAIN r.rounded_probability_mass_function :
                    Mass(r, k) = ConvolutionAt(a, b, k)
             /\ r.infinity_mass =
                    Sub(Add(a.infinity_mass, b.infinity_mass),
                        Mul(a.infinity_mass, b.infinity_mass))

\* the factory call that built pld[2], where it was from_two_probability_
\* mass_functions(lower, upper, pessimistic_estimate, interval, bound)
FromTwoPmf == origin[2][1] = "from_two_probability_mass_functions"
Lower == origin[2][2][1]
Upper == origin[2][2][2]
Pessimistic == origin[2][2][3]

\* infinity_mass plus, over the buckets whose value is strictly greater than
\* epsilon, mass * (1 - exp(epsilon - value))
BucketsAbove(p, epsilon) ==
    {i \in DOMAIN p.rounded_probability_mass_function :
        Lt(epsilon, BucketValue(p, i))}

HockeyStick(p, epsilon) ==
    LET above == BucketsAbove(p, epsilon)
    IN Add(p.infinity_mass,
           SumOver([i \in above |->
                        Mul(Mass(p, i),
                            Sub(One, exp(Div(epsilon, BucketValue(p, i)))))],
                   above))

\* epsilon is a multiple of the interval of pld[2], and pld[2] is
\* from_privacy_parameters(epsilon, delta = 0)
PureEpsilonDP(epsilon) ==
    /\ origin[2][1] = "from_privacy_parameters"
    /\ origin[2][2][1] = [epsilon |-> epsilon, delta |-> Zero]
    /\ \E i \in DOMAIN pld[2].rounded_probability_mass_function :
            BucketValue(pld[2], i) = epsilon

\* C4: get_delta_for_epsilon(epsilon) is infinity_mass plus the sum over
\* exactly the buckets with value > epsilon of mass * (1 - exp(epsilon -
\* value)); it is never negative, and it is exactly 0 at epsilon for the PLD
\* of from_privacy_parameters(epsilon, 0) when epsilon is a bucket value.
C4_DeltaFormula ==
    AskedDelta
    => /\ last.out = Return(HockeyStick(Queried, Argument))
       /\ Le(Zero, last.out.value)
       /\ PureEpsilonDP(Argument) => last.out.value = Zero

\* C4 witness: from_privacy_parameters(ln 4, 0) asked at ln 4, where the
\* bucket of value ln 4 holds mass 4/5 and lies at epsilon, not above it
C4_Witness ==
    /\ AskedDelta
    /\ PureEpsilonDP(Argument)
    /\ Argument = <<4, 1>>
    /\ \E i \in DOMAIN Queried.rounded_probability_mass_function :
            BucketValue(Queried, i) = Argument /\ Lt(Zero, Mass(Queried, i))
    /\ last.out.value = Zero

\* the hockey-stick divergence of the two distributions themselves:
\* sum over the outcomes o of max(0, mu_upper(o) - e^epsilon * mu_lower(o))
TrueDivergence(lower, upper, epsilon) ==
    LET outcomes == DOMAIN lower \cup DOMAIN upper
    IN SumOver([o \in outcomes |->
                    Max2(Zero, Sub(GetLog(upper, o),
                                   Mul(epsilon, GetLog(lower, o))))],
               outcomes)

\* math.exp loses nothing in get_delta_for_epsilon(epsilon): no bucket above
\* epsilon has exp(epsilon - value) flushed to zero
ExpExact(p, epsilon) ==
    \A i \in BucketsAbove(p, epsilon) :
        ~Lt(Div(epsilon, BucketValue(p, i)), ExpMin)

C5_WitnessPessimistic ==
    /\ AskedDelta /\ FromTwoPmf /\ ExpExact(Queried, Argument)
    /\ Pessimistic
    /\ Lt(Zero, TrueDivergence(Lower, Upper, Argument))
    /\ Lt(TrueDivergence(Lower, Upper, Argument), last.out.value)

C6_MassConservation ==
    FromTwoPmf
    => IF Pessimistic
       THEN TotalMass(pld[2]) = One
       ELSE Le(TotalMass(pld[2]), One)

\* C6 witness: a pessimistic PLD with an outcome below the truncation bound,
\* whose mass went to infinity_mass, and an outcome kept in the histogram
C6_Witness ==
    /\ FromTwoPmf /\ Pessimistic
    /\ \E o \in Truncated(Lower, Upper, origin[2][2][5]) :
            Lt(Zero, GetLog(Upper, o))
    /\ DOMAIN pld[2].rounded_probability_mass_function # {}
    /\ TotalMass(pld[2]) = One

\* the calls that are made on PLD objects
Methods ==
    {"compose", "self_compose", "get_delta_for_epsilon", "get_epsilon_for_delta"}

\* the objects the call about to be recorded in last is made on, before it
OperandsBefore ==
    IF last'.op = "compose" THEN <<pld[1], pld[last'.args[1]]>>
    ELSE IF last'.op = "self_compose" THEN <<pld[1]>>
    ELSE <<pld[last'.args[1]]>>

\* C11: no call of compose, self_compose, get_delta_for_epsilon or
\* get_epsilon_for_delta changes the histogram, the interval or the
\* infinity_mass of the object it is called on or of its argument: after the
\* call the operands are as before it, and so is every object the caller
\* holds, except the variable the caller assigns the returned PLD to.
C11_Immutable ==
    [][last'.op \in Methods
        => /\ last'.operands = OperandsBefore
           /\ pld'[2] = pld[2]
           /\ (last'.out.kind = "raise" \/ last'.op \notin {"compose", "self_compose"})
                => pld'[1] = pld[1]]_vars

\* C11 witness: a compose that returned, on operands whose histograms have
\* no mass at some key between the smallest and the largest
C11_Witness ==
    /\ last.op = "compose" /\ last.out.kind = "return"
    /\ last.operands = <<last.args[2], last.args[3]>>
    /\ \A a \in {last.args[2], last.args[3]} :
        LET keys == DOMAIN a.rounded_probability_mass_function
        IN \E k \in SetMin(keys)..SetMax(keys) : k \notin keys

\* the PLD composed with itself by compose, k - 1 times
RECURSIVE ComposeTimes(_, _)
ComposeTimes(a, k) ==
    IF k = 1 THEN Return(a)
    ELSE LET prev == ComposeTimes(a, k - 1)
         IN IF prev.kind = "raise" THEN prev ELSE compose(prev.value, a)

\* the mass at key n of the k-fold convolution of histogram h with itself:
\* the sum, over the keys i of h, of h[i] times the (k-1)-fold mass at n - i
RECURSIVE FoldMass(_, _, _)
FoldMass(h, k, n) ==
    IF k = 1 THEN (IF n \in DOMAIN h THEN h[n] ELSE Zero)
    ELSE SumOver([i \in DOMAIN h |-> Mul(h[i], FoldMass(h, k - 1, n - i))],
                 DOMAIN h)

\* 1 - (1 - x)^k
OneMinusPower(x, k) == Sub(One, RatPow(Sub(One, x), k))

\* two PLDs with the same interval, infinity_mass and mass at every key
SamePLD(p, q) ==
    /\ p.value_discretization_interval = q.value_discretization_interval
    /\ p.infinity_mass = q.infinity_mass
    /\ \A n \in DOMAIN p.rounded_probability_mass_function
               \cup DOMAIN q.rounded_probability_mass_function :
            Mass(p, n) = Mass(q, n)

\* C12: self_compose(k), k >= 1, returns a PLD whose histogram is the k-fold
\* convolution of the histogram with itself, with keys from k times the
\* smallest key, and whose infinity_mass is 1 - (1 - infinity_mass)^k; it is
\* the PLD that k - 1 calls of compose with itself give.
C12_SelfCompose ==
    last.op = "self_compose"
    => /\ last.out.kind = "return"
       /\ LET a == last.args[2]
              k == last.args[1]
              r == last.out.value
              lo == SetMin(DOMAIN a.rounded_probability_mass_function)
              hi == SetMax(DOMAIN a.rounded_probability_mass_function)
          IN /\ r.value_discretization_interval = a.value_discretization_interval
             /\ DOMAIN r.rounded_probability_mass_function \subseteq (k * lo)..(k * hi)
             /\ \A n \in (k * lo)..(k * hi) :
                    Mass(r, n) = FoldMass(a.rounded_probability_mass_function, k, n)
             /\ r.infinity_mass = OneMinusPower(a.infinity_mass, k)
             /\ ComposeTimes(a, k).kind = "return"
             /\ SamePLD(r, ComposeTimes(a, k).value)

\* C13: self_compose(1) returns a PLD with the histogram and the
\* infinity_mass of the PLD it is called on, also for the PLD of the Gaussian
\* mechanism, whatever its log_mass_truncation_bound.
C13_SelfComposeOnce ==
    (last.op = "self_compose" /\ last.args[1] = 1)
    => /\ last.out.kind = "return"
       /\ last.out.value.rounded_probability_mass_function
            = last.args[2].rounded_probability_mass_function
       /\ last.out.value.infinity_mass = last.args[2].infinity_mass

\* the histogram H of a call convolve_dictionary({0: 1.0}, H) or
\* convolve_dictionary(H, {0: 1.0})
Convolved ==
    IF last.args[1] = PointMassAtZero THEN last.args[2] ELSE last.args[1]

\* H without its keys of mass <= 0
PositivePart(H) == Dict([k \in {j \in DOMAIN H : Lt(Zero, H[j])} |-> H[k]])

\* C14, as stated: convolve_dictionary({0: 1.0}, H) and
\* convolve_dictionary(H, {0: 1.0}) return H unchanged, same keys and same
\* masses, for any integer-keyed histogram H.
C14_IdentityElement ==
    last.op = "convolve_dictionary"
    => /\ last.out.kind = "return"
       /\ last.out.value = Convolved

\* C14, amended: for a non-empty H both calls return H without its keys of
\* mass <= 0, every remaining key with the mass it has in H; so H is returned
\* unchanged exactly when all its masses are positive.  For the empty H both
\* calls raise ValueError.
C14_IdentityOnPositiveMasses ==
    last.op = "convolve_dictionary"
    => IF DOMAIN Convolved = {}
       THEN last.out.kind = "raise" /\ last.out.error = "ValueError"
       ELSE /\ last.out.kind = "return"
            /\ last.out.value = PositivePart(Convolved)
            /\ (last.out.value = Convolved
                    <=> \A k \in DOMAIN Convolved : Lt(Zero, Convolved[k]))

\* H, with a key of zero mass between two keys of positive mass, was the
\* second argument and came back without that key
C14_Witness ==
    /\ last.op = "convolve_dictionary"
    /\ last.args[1] = PointMassAtZero
    /\ last.out.kind = "return"
    /\ DOMAIN last.args[2] = {-1, 0, 2}
    /\ Lt(Zero, last.args[2][-1]) /\ last.args[2][0] = Zero
    /\ Lt(Zero, last.args[2][2])
    /\ DOMAIN last.out.value = {-1, 2}

\* C15: delta is monotone non-increasing in epsilon: for every PLD and all
\* epsilon1 <= epsilon2, get_delta_for_epsilon(epsilon2) <=
\* get_delta_for_epsilon(epsilon1).
C15_DeltaMonotone ==
    AskedDelta
    => \A epsilon2 \in Epsilons :
        Le(Argument, epsilon2)
        => Le(get_delta_for_epsilon(Queried, epsilon2), last.out.value)

\* C15 witness: a composed PLD was asked at a negative epsilon, and a larger
\* epsilon has a strictly smaller delta that is not 0
C15_Witness ==
    /\ AskedDelta /\ composed[1] >= 2
    /\ Lt(Argument, One)
    /\ \E epsilon2 \in Epsilons :
        /\ Lt(Argument, epsilon2)
        /\ Lt(get_delta_for_epsilon(Queried, epsilon2), last.out.value)
        /\ Lt(Zero, get_delta_for_epsilon(Queried, epsilon2))

\* x <= y for epsilons, of which +infinity is the largest
AtMost(x, y) == y = PosInf \/ (x # PosInf /\ Le(x, y))

C16_WitnessInfinite ==
    /\ AskedEpsilon /\ last.out.kind = "return"
    /\ last.out.value = PosInf
    /\ \E delta2 \in Deltas :
        LET out2 == get_epsilon_for_delta(Queried, delta2)
        IN Lt(Argument, delta2) /\ out2.kind = "return" /\ out2.value # PosInf

\* C17: from_privacy_parameters builds, for every epsilon >= 0 and every
\* delta in [0, 1], a two-point PLD: infinity_mass = delta, mass
\* (1 - delta) / (1 + exp(-epsilon)) at bucket ceil(epsilon / g) and mass
\* (1 - delta) / (1 + exp(epsilon)) at bucket ceil(-epsilon / g), both
\* present in the histogram, so that infinity_mass + sum of masses = 1.
C17_TwoPoint ==
    last.op = "from_privacy_parameters"
    => /\ last.out.kind = "return"
       /\ LET p == last.out.value
              epsilon == last.args[1].epsilon
              delta == last.args[1].delta
              g == last.args[2]
          IN /\ p.infinity_mass = delta
             /\ Mass(p, ceil(epsilon, g))
                    = Div(Sub(One, delta), Add(One, exp(Neg(epsilon))))
             /\ Mass(p, ceil(Neg(epsilon), g))
                    = Div(Sub(One, delta), Add(One, exp(epsilon)))
             /\ TotalMass(p) = One

\* the last call is p.get_delta_for_epsilon(epsilon) on the PLD p that
\* from_privacy_parameters built from (epsilon, delta)
RoundTrip ==
    /\ AskedDelta
    /\ origin[last.args[1]][1] = "from_privacy_parameters"
    /\ Argument = origin[last.args[1]][2][1].epsilon
BuiltDelta == origin[last.args[1]][2][1].delta

\* epsilon is an integer multiple of g: g * ceil(epsilon / g) = epsilon
IsMultiple(epsilon, g) == Pow(g, ceil(epsilon, g)) = epsilon

\* get_delta_for_epsilon(epsilon) is never below delta and exceeds it by at
\* most 1 - exp(-g), which is at most g
WithinInterval ==
    /\ Le(BuiltDelta, last.out.value)
    /\ Le(Sub(last.out.value, BuiltDelta),
          Sub(One, Neg(Queried.value_discretization_interval)))

\* C18, as stated: for the PLD p that from_privacy_parameters builds from
\* (epsilon, delta) with interval g, p.get_delta_for_epsilon(epsilon) is
\* never below delta and differs from it by at most g; it equals delta
\* exactly when epsilon is an integer multiple of g.
C18_RoundTrip ==
    RoundTrip
    => /\ WithinInterval
       /\ last.out.value = BuiltDelta
            <=> IsMultiple(Argument, Queried.value_discretization_interval)

\* C18, amended: p.get_delta_for_epsilon(epsilon) is never below delta and
\* differs from it by at most g; it equals delta exactly when epsilon is an
\* integer multiple of g or delta = 1.
C18_RoundTripUnlessDeltaOne ==
    RoundTrip
    => /\ WithinInterval
       /\ last.out.value = BuiltDelta
            <=> \/ IsMultiple(Argument, Queried.value_discretization_interval)
                \/ BuiltDelta = One

\* C18 witness: epsilon is no multiple of g, delta is in (0, 1), and the
\* answer is above delta
C18_Witness ==
    /\ RoundTrip
    /\ ~IsMultiple(Argument, Queried.value_discretization_interval)
    /\ Lt(Zero, BuiltDelta) /\ Lt(BuiltDelta, One)
    /\ Lt(BuiltDelta, last.out.value)

\* the arguments of the last call, a call of from_randomized_response
NoiseParameter == last.args[1]
NumberOfBuckets == last.args[2]

\* C19: from_randomized_response raises an error, and builds no PLD, when
\* noise_parameter <= 0, noise_parameter >= 1 or num_buckets <= 1, and it
\* succeeds for every 0 < noise_parameter < 1 and num_buckets > 1.
C19_Validation ==
    last.op = "from_randomized_response"
    => IF Le(NoiseParameter, Zero) \/ Le(One, NoiseParameter)
            \/ NumberOfBuckets <= 1
       THEN last.out.kind = "raise"
       ELSE last.out.kind = "return"

\* p / k and 1 - p + p / k, as numbers
NotInput == Div(NoiseParameter, <<NumberOfBuckets, 1>>)
EqualInput == Add(Sub(One, NoiseParameter), NotInput)

\* the buckets the log ratio and the negated log ratio are rounded to
BucketEqual == round_fn(last.args[3], Div(EqualInput, NotInput), last.args[4])
BucketNot == round_fn(last.args[3], Div(NotInput, EqualInput), last.args[4])

\* the sum of the three masses that belong to bucket b
ThreePointMass(b) ==
    Add(Add(IF b = BucketEqual THEN EqualInput ELSE Zero,
            IF b = BucketNot THEN NotInput ELSE Zero),
        IF b = 0 THEN Mul(NotInput, <<NumberOfBuckets - 2, 1>>) ELSE Zero)

\* the PLD p is the three-point PLD of the last call
ThreePoint(p) ==
    /\ p.infinity_mass = Zero
    /\ DOMAIN p.rounded_probability_mass_function = {BucketEqual, BucketNot, 0}
    /\ \A b \in DOMAIN p.rounded_probability_mass_function :
        p.rounded_probability_mass_function[b] = ThreePointMass(b)
    /\ SumValues(p.rounded_probability_mass_function) = One

\* C20: from_randomized_response(p, k) with 0 < p < 1 and k > 1 builds the
\* three-point PLD: mass 1 - p + p/k at the rounded bucket of
\* log((1 - p + p/k) / (p/k)), mass p/k at the rounded bucket of the negated
\* log ratio, mass (k - 2) * p/k at bucket 0 (a key even when that mass is
\* zero), infinity_mass = 0; masses of the same bucket are summed, so the
\* masses total 1.
C20_ThreePoint ==
    (/\ last.op = "from_randomized_response"
     /\ Lt(Zero, NoiseParameter) /\ Lt(NoiseParameter, One)
     /\ NumberOfBuckets > 1)
    => /\ last.out.kind = "return"
       /\ ThreePoint(last.out.value)

\* C30: composition is total on the PLDs the factories and earlier
\* compositions build: compose on two of them with the same interval, and
\* self_compose(k) for k >= 1, return a PLD and raise nothing, also when a
\* histogram is empty or has only buckets of zero mass.
C30_CompositionTotal ==
    /\ (last.op = "compose" /\ SameInterval(last.args[2], last.args[3]))
        => last.out.kind = "return"
    /\ last.op = "self_compose" => last.out.kind = "return"

\* the outcomes with positive lower mass and upper log-mass above the
\* truncation bound
Placed ==
    {o \in DOMAIN Lower :
        Lt(Zero, Lower[o]) /\ Lt(origin[2][2][5], GetLog(Upper, o))}

\* v = log(upper) - log(lower) of a placed outcome
LossOf(o) == Div(Upper[o], Lower[o])

\* k is v / g rounded up when pessimistic, down when optimistic: the bucket
\* value k * g is on that side of v and less than g away from it
RoundedTo(k, v, g) ==
    IF Pessimistic
    THEN Lt(Pow(g, k - 1), v) /\ Le(v, Pow(g, k))
    ELSE Le(Pow(g, k), v) /\ Lt(v, Pow(g, k + 1))

\* C28: from_two_probability_mass_functions places every outcome with
\* positive lower mass and upper log-mass above the truncation bound in
\* bucket ceil(v / g) when pessimistic and floor(v / g) when optimistic,
\* v = log(upper) - log(lower), so the bucket value is >= v (<= v) and within
\* g of it; the mass of a bucket is the sum of the upper masses of all the
\* outcomes placed in it, and there is no other bucket.
C28_BucketRounding ==
    FromTwoPmf
    => LET histogram == pld[2].rounded_probability_mass_function
           g == pld[2].value_discretization_interval
       IN /\ \A o \in Placed :
                \E k \in DOMAIN histogram : RoundedTo(k, LossOf(o), g)
          /\ \A k \in DOMAIN histogram :
                LET here == {o \in Placed : RoundedTo(k, LossOf(o), g)}
                IN /\ here # {}
                   /\ histogram[k] = SumOver([o \in here |-> exp(Upper[o])], here)

\* C28 witness: two outcomes with different privacy loss values are placed
\* in the same bucket, away from both values, and the bucket holds the sum
\* of two positive masses
C28_Witness ==
    /\ FromTwoPmf
    /\ \E k \in DOMAIN pld[2].rounded_probability_mass_function :
        \E o1, o2 \in Placed :
            /\ LossOf(o1) # LossOf(o2)
            /\ RoundedTo(k, LossOf(o1), pld[2].value_discretization_interval)
            /\ RoundedTo(k, LossOf(o2), pld[2].value_discretization_interval)
            /\ Pow(pld[2].value_discretization_interval, k)
                    \notin {LossOf(o1), LossOf(o2)}
            /\ Lt(Zero, exp(Upper[o1])) /\ Lt(Zero, exp(Upper[o2]))


\* C21: the constructors of the additive noise PLDs raise, and return no PLD,
\* when the sensitivity is zero or negative, when the parameter of the
\* Laplace or discrete Laplace noise or the standard_deviation of the
\* Gaussian noise is zero or negative, and when the sensitivity of the
\* discrete Laplace noise is not an int; every PLD they return has a
\* positive sensitivity, a positive integer for the discrete Laplace noise.
C21_NoiseValidation ==
    /\ last.op = "LaplacePrivacyLossDistribution"
        => /\ (Le(last.args[1], Zero) \/ Le(last.args[2], One))
                => last.out.kind = "raise"
           /\ last.out.kind = "return" => Lt(One, last.out.value.sensitivity)
    /\ last.op = "DiscreteLaplacePrivacyLossDistribution"
        => /\ (\/ Le(last.args[1], One)
               \/ ~last.args[2].int
               \/ Le(last.args[2].value, Zero))
                => last.out.kind = "raise"
           /\ last.out.kind = "return"
                => /\ last.args[2].int
                   /\ last.out.value.sensitivity = last.args[2].value[1]
                   /\ last.out.value.sensitivity > 0
    /\ last.op = "GaussianPrivacyLossDistribution"
        => /\ (Le(last.args[1], Zero) \/ Le(last.args[2], Zero))
                => last.out.kind = "raise"
           /\ last.out.kind = "return" => Lt(Zero, last.out.value.sensitivity)

\* a Laplace constructor call with a positive parameter and sensitivity 0
\* has raised
C21_Witness ==
    /\ last.op = "LaplacePrivacyLossDistribution"
    /\ Lt(Zero, last.args[1])
    /\ last.args[2] = One
    /\ last.out.kind = "raise"


\* pld[1] is an additive noise PLD whose histogram the model computes
NoisePLD == "kind" \in DOMAIN pld[1]

\* the integers the discrete loop of pld[1] visits
LoopIntegers ==
    privacy_loss_tail(pld[1]).lower_x_truncation[1]
        .. privacy_loss_tail(pld[1]).upper_x_truncation[1]

\* round_fn(value / value_discretization_interval) for pld[1]
Scaled(value) ==
    round_fn(pld[1].pessimistic_estimate, value,
             pld[1].value_discretization_interval)

\* the mass the tail of pld[1] puts on bucket k
TailMassAt(k) ==
    LET items == privacy_loss_tail(pld[1]).tail_probability_mass_function
        here == {i \in DOMAIN items :
                    items[i][1] # PosInf /\ Scaled(items[i][1]) = k}
    IN SumOver([i \in here |-> items[i][2]], here)

\* C25: the histogram of a discrete noise PLD holds, for every integer x from
\* ceil(lower_x_truncation) to floor(upper_x_truncation), the mass
\* noise_cdf(x) - noise_cdf(x - 1) on the bucket
\* round_fn(privacy_loss(x) / value_discretization_interval), the scaling by
\* the interval that the tail entries get, and nothing else besides the tail.
C25_DiscreteBuckets ==
    (NoisePLD /\ pld[1].discrete_noise)
    => \A k \in DOMAIN pld[1].rounded_probability_mass_function
                \cup {Scaled(privacy_loss(pld[1], <<x, 1>>)) : x \in LoopIntegers} :
          LET here == {x \in LoopIntegers :
                          Scaled(privacy_loss(pld[1], <<x, 1>>)) = k}
          IN Mass(pld[1], k)
                = Add(TailMassAt(k),
                      SumOver([x \in here |->
                                  Sub(noise_cdf(pld[1], <<x, 1>>),
                                      noise_cdf(pld[1], <<x - 1, 1>>))], here))


\* the from_privacy_guarantee class methods of the Laplace noises
GuaranteeMethods ==
    {"LaplacePrivacyLossDistribution.from_privacy_guarantee",
     "DiscreteLaplacePrivacyLossDistribution.from_privacy_guarantee"}

\* the largest privacy loss of a Laplace or discrete Laplace noise:
\* sensitivity / parameter and sensitivity * parameter
MaxPrivacyLoss(p) ==
    IF p.kind = "laplace" THEN Pow(p.sensitivity, InverseScale(p))
    ELSE Pow(p.parameter, p.sensitivity)

\* the sensitivity argument of a from_privacy_guarantee call is positive
PositiveSensitivity(call) ==
    IF call[1] = "LaplacePrivacyLossDistribution.from_privacy_guarantee"
    THEN Lt(One, call[2][2]) ELSE Lt(Zero, call[2][2].value)

\* C22: for every epsilon > 0 and every positive sensitivity, integer or
\* not, from_privacy_guarantee of the Laplace and of the discrete Laplace
\* noise returns a mechanism whose largest privacy loss is epsilon and whose
\* delta at epsilon is 0.
C22_PureGuarantee ==
    /\ (/\ last.op \in GuaranteeMethods
        /\ Lt(One, last.args[1].epsilon)
        /\ PositiveSensitivity(<<last.op, last.args>>))
        => /\ last.out.kind = "return"
           /\ MaxPrivacyLoss(last.out.value) = last.args[1].epsilon
    /\ (/\ NoisePLD
        /\ origin[1][1] \in GuaranteeMethods
        /\ last.op = "get_delta_for_epsilon"
        /\ last.args[1] = origin[1][2][1].epsilon)
        => last.out = Return(Zero)


\* -math.inf on the noise axis of pld[1]
MinusInfinity == IF pld[1].kind = "discrete_laplace" THEN NegInf ELSE Zero

\* x <= v on the noise axis of pld[1], for a point x and a result v of
\* inverse_privacy_loss, which may be infinite
PointAtMost(x, v) == v # MinusInfinity /\ (v = PosInf \/ Le(x, v))

\* C27: inverse_privacy_loss is the exact inverse bound of privacy_loss: for
\* every loss L and every point x of the noise axis, privacy_loss(x) >= L if
\* and only if x <= inverse_privacy_loss(L); for the Laplace and discrete
\* Laplace noises the result is +infinity when L is at or below the least
\* loss and -infinity when L is above the greatest; privacy_loss is
\* non-increasing in x.
C27_InverseBound ==
    /\ (NoisePLD /\ last.op = "inverse_privacy_loss")
        => /\ \A x \in Points(pld[1]) :
                 Le(last.args[1], privacy_loss(pld[1], x))
                    <=> PointAtMost(x, last.out.value)
           /\ pld[1].kind # "gaussian"
                => /\ Le(last.args[1], Neg(MaxPrivacyLoss(pld[1])))
                        => last.out.value = PosInf
                   /\ Lt(MaxPrivacyLoss(pld[1]), last.args[1])
                        => last.out.value = MinusInfinity
    /\ (NoisePLD /\ last.op = "privacy_loss")
        => \A y \in Points(pld[1]) :
              Le(last.args[1], y)
                => Le(privacy_loss(pld[1], y), last.out.value)

\* inverse_privacy_loss has returned a finite point, with a point of the
\* noise axis whose loss is at least L and another whose loss is below L
C27_Witness ==
    /\ NoisePLD
    /\ last.op = "inverse_privacy_loss"
    /\ last.out.value # PosInf
    /\ \E x \in Points(pld[1]) : Le(last.args[1], privacy_loss(pld[1], x))
    /\ \E y \in Points(pld[1]) : Lt(privacy_loss(pld[1], y), last.args[1])


\* the probability masses the while loop of pld[1] adds, summed
BodyMass ==
    LET iterations == WhileLoop(pld[1])
    IN SumOver([i \in DOMAIN iterations |-> iterations[i].probability_mass],
               DOMAIN iterations)

\* C29: a PLD of the Laplace noise, of the discrete Laplace noise (rounding
\* up or down) or of the Gaussian noise rounded up has total mass
\* infinity_mass + sum of the histogram = 1; a PLD of the Gaussian noise
\* rounded down has total mass 1 - 0.5 * exp(log_mass_truncation_bound); the
\* masses of the while loop sum to
\* noise_cdf(upper_x_truncation) - noise_cdf(lower_x_truncation).
C29_NoiseTotalMass ==
    NoisePLD
    => /\ TotalMass(pld[1])
            = IF pld[1].kind = "gaussian" /\ ~pld[1].pessimistic_estimate
              THEN Sub(One, Mul(<<1, 2>>, exp(pld[1].log_mass_truncation_bound)))
              ELSE One
       /\ ~pld[1].discrete_noise
            => BodyMass
                = Sub(noise_cdf(pld[1], privacy_loss_tail(pld[1]).upper_x_truncation),
                      noise_cdf(pld[1], privacy_loss_tail(pld[1]).lower_x_truncation))

\* a Gaussian PLD rounded down whose while loop ran at least twice
C29_Witness ==
    /\ NoisePLD
    /\ pld[1].kind = "gaussian"
    /\ ~pld[1].pessimistic_estimate
    /\ Len(WhileLoop(pld[1])) >= 2
    /\ Lt(TotalMass(pld[1]), One)


\* iteration i of the while loop of pld[1]: every point of [lower_x, upper_x]
\* asked about, the end points included, has its privacy loss in
\* [g * step, g * (step + 1)] for step the rounded_down_value; the mass goes
\* to step + 1 rounding up and to step rounding down; upper_x is not below
\* lower_x
IterationHolds(iterations, i) ==
    LET it == iterations[i]
        g == pld[1].value_discretization_interval
    IN /\ Le(it.lower_x, it.upper_x)
       /\ \A x \in {it.lower_x, it.upper_x}
                \cup {y \in Points(pld[1]) :
                        Le(it.lower_x, y) /\ Le(y, it.upper_x)} :
             /\ Le(Pow(g, it.rounded_down_value), privacy_loss(pld[1], x))
             /\ Le(privacy_loss(pld[1], x), Pow(g, it.rounded_down_value + 1))
       /\ it.rounded_value = IF pld[1].pessimistic_estimate
                             THEN it.rounded_down_value + 1
                             ELSE it.rounded_down_value
       /\ it.probability_mass
            = Sub(noise_cdf(pld[1], it.upper_x), noise_cdf(pld[1], it.lower_x))
       /\ i > 1 => /\ it.lower_x = iterations[i - 1].upper_x
                   /\ it.rounded_down_value
                        = iterations[i - 1].rounded_down_value - 1

\* C26: in every iteration of the while loop of a Laplace or Gaussian PLD
\* every x of [lower_x, upper_x] has its privacy loss in
\* [g * step, g * (step + 1)], and the cdf mass of the interval is added to
\* bucket step + 1 rounding up and to bucket step rounding down; lower_x
\* never decreases, step decreases by 1 each iteration, and the loop ends
\* with lower_x = upper_x_truncation.
C26_ContinuousWalk ==
    (NoisePLD /\ ~pld[1].discrete_noise)
    => LET iterations == WhileLoop(pld[1])
           tail == privacy_loss_tail(pld[1])
       IN /\ \A i \in DOMAIN iterations : IterationHolds(iterations, i)
          /\ iterations # <<>>
                => /\ iterations[1].lower_x = tail.lower_x_truncation
                   /\ iterations[Len(iterations)].upper_x = tail.upper_x_truncation
          /\ iterations = <<>>
                => ~Lt(tail.lower_x_truncation, tail.upper_x_truncation)
          /\ \A k \in DOMAIN pld[1].rounded_probability_mass_function
                      \cup {iterations[i].rounded_value : i \in DOMAIN iterations} :
                LET here == {i \in DOMAIN iterations :
                                iterations[i].rounded_value = k}
                IN Mass(pld[1], k)
                      = Add(TailMassAt(k),
                            SumOver([i \in here |-> iterations[i].probability_mass],
                                    here))

\* a Laplace PLD of parameter 1/2 rounded up whose while loop ran at least
\* three times, the last time up to upper_x_truncation
C26_Witness ==
    /\ NoisePLD
    /\ pld[1].kind = "laplace"
    /\ pld[1].parameter = <<1, 2>>
    /\ pld[1].pessimistic_estimate
    /\ Len(WhileLoop(pld[1])) >= 3
    /\ WhileLoop(pld[1])[Len(WhileLoop(pld[1]))].upper_x
            = privacy_loss_tail(pld[1]).upper_x_truncation


\* C23: throughout the binary search of
\* GaussianPrivacyLossDistribution.from_privacy_guarantee the mechanism of
\* upper_standard_deviation has delta-at-epsilon <= the target delta, and
\* lower_standard_deviation is 0 or the standard deviation of a mechanism
\* whose delta-at-epsilon exceeds the target; on return upper - lower is at
\* most the tolerance and the PLD returned is the one of
\* upper_standard_deviation.
C23_SearchInvariant ==
    /\ frame.pc \in {"bisecting", "returned"}
        => /\ MeetsTarget(frame.call, frame.upper_standard_deviation)
           /\ \/ frame.lower_standard_deviation = Zero
              \/ ~MeetsTarget(frame.call, frame.lower_standard_deviation)
    /\ frame.pc = "returned"
        => /\ Le(RoundToFloat(Sub(frame.upper_standard_deviation,
                                  frame.lower_standard_deviation)), Tolerance)
           /\ last.op = "GaussianPrivacyLossDistribution.from_privacy_guarantee"
           /\ last.out.kind = "return"
           /\ last.out.value = pld[1]
           /\ pld[1].standard_deviation = frame.upper_standard_deviation

\* a search has returned after moving both bounds
C23_Witness ==
    /\ frame.pc = "returned"
    /\ frame.lower_standard_deviation # Zero
    /\ frame.upper_standard_deviation # frame.call.initial_standard_deviation

\* C24: GaussianPrivacyLossDistribution.from_privacy_guarantee terminates
\* for every finite input with epsilon > 0, 0 < delta < 1 and sensitivity >
\* 0: every call that has started returns.
C24_SearchTerminates == [](frame.pc = "doubling" => <>(frame.pc = "returned"))

====
